---- MODULE Spec2Model ----
(***************************************************************************)
(* LiveKitManager (src/src/lib/livekit.ts): the connection lifecycle, the  *)
(* participant registry, the device toggles and the camera restoration of  *)
(* the conferencing client, with the livekit-client Room as environment,   *)
(* and the connection callback of the Room component (src/src/App.tsx).    *)
(***************************************************************************)
EXTENDS Integers, FiniteSets, Sequences, TLC

\* ---------------------------------------------------------------- bounds
MaxRemotes == 2       \* remote identities the room may hold
MaxPending == 2       \* device calls in flight at the same time
MaxTimers == 1        \* pending setTimeout callbacks of one kind
MaxRestores == 1      \* restoration passes waiting for the engine at the same time
MaxMonitors == 2      \* stability monitors installed (successful connect() calls)
MaxAttempts == 6      \* cap of the model on restorationAttempts
MaxNotifications == 6 \* onConnectionChange(false) calls the component counts
MaxUiTimers == 3      \* pending timers of one kind of the component's callback
\* Room objects made by overlapping connect() calls.
MaxRooms == 3

\* ------------------------------------------------------- program constants
maxRestorationAttempts == 5
LocalIdentity == 0
RemoteIds == 1..MaxRemotes

NoRoom == 0
TheRoom == 1
NoTrack == "none"
\* Track objects the transport hands out.  "vOff" is a video track whose
\* `enabled` property is false, "aMuted" an audio track whose `muted`
\* property is true; the other tracks carry neither property.
VideoTracks == {"v1", "vOff"}
AudioTracks == {"a1", "aMuted"}
Kinds == {"video", "audio"}
TracksOf(kind) == IF kind = "video" THEN VideoTracks ELSE AudioTracks
RoomStates == {"disconnected", "connecting", "connected", "reconnecting"}

\* DisconnectReason of livekit-client is a numeric enum; the handler
\* compares reason.toString() with the enum member's name.
Reasons == {"UNKNOWN_REASON", "CLIENT_INITIATED", "DUPLICATE_IDENTITY",
            "SERVER_SHUTDOWN", "undefined"}
ReasonValue(r) ==
  CASE r = "UNKNOWN_REASON" -> "0"
    [] r = "CLIENT_INITIATED" -> "1"
    [] r = "DUPLICATE_IDENTITY" -> "2"
    [] r = "SERVER_SHUTDOWN" -> "3"
    [] OTHER -> "undefined"
ReasonTruthy(r) == r \notin {"undefined", "UNKNOWN_REASON"}
ReasonToString(r) == ReasonValue(r)
IsPermanentReason(r) ==
  ReasonTruthy(r) /\ (ReasonToString(r) = "CLIENT_INITIATED" \/ ReasonToString(r) = "SERVER_SHUTDOWN")

VARIABLES
  room,                 \* this.room: NoRoom (null) or TheRoom (a Room object)
  roomState,            \* this.room.state
  lp,                   \* this.room.localParticipant: flags and publications
  roster,               \* the room's remote participants: flags and tracks
  participants,         \* this.participants
  lastCameraState,
  lastMicrophoneState,
  restorationAttempts,
  connPc,               \* position of the connect() call in flight
  discPc,               \* position of the disconnect() call in flight
  pending,              \* device calls awaiting the transport
  restores,             \* restoration passes polling in waitForEngineBeforePublish
  timers,               \* pending setTimeout callbacks, by kind
  monitors,             \* setInterval monitors installed, with their counters
  lastConn,             \* last value given to onConnectionChange
  lastSnap,             \* last snapshot given to onParticipantsChange
  ui,                   \* the Room component's connection callback: its state and timers
  calls,                \* connect() calls that overlap: their positions and the Rooms they made
  last                  \* history: the handler or call that ran last, and its outcome

vars == <<room, roomState, lp, roster, participants,
          lastCameraState, lastMicrophoneState, restorationAttempts,
          connPc, discPc, pending, restores, timers, monitors, lastConn,
          lastSnap, ui, calls, last>>

\* ------------------------------------------------------------- registry
Entry(isLocal, isRoomCreator, v, a, isMuted, isCameraOn) ==
  [isLocal |-> isLocal, isRoomCreator |-> isRoomCreator, videoTrack |-> v,
   audioTrack |-> a, isMuted |-> isMuted, isCameraOn |-> isCameraOn]

Has(reg, id) == id \in DOMAIN reg
Put(reg, id, e) == [x \in (DOMAIN reg) \cup {id} |-> IF x = id THEN e ELSE reg[x]]
Del(reg, id) == [x \in (DOMAIN reg) \ {id} |-> reg[x]]
EmptyReg == [x \in {} |-> TRUE]

\* A transport participant: the two enabled flags and the track of the
\* first publication of each kind that has one (pub.track), else NoTrack.
TPart(cam, mic, v, a) == [cam |-> cam, mic |-> mic, v |-> v, a |-> a]
FreshLocal == TPart(FALSE, FALSE, NoTrack, NoTrack)

\* Variant: a remote entry keeps the flags of lines 345-346, as a local one.
AddParticipantFromEnabledFlags(reg, id, tp, isLocal, isRoomCreator) ==
  Put(reg, id, Entry(isLocal, isRoomCreator, tp.v, tp.a, ~tp.mic, tp.cam))

\* Variant: an identity that has an entry keeps it.
AddParticipantKeepsExisting(reg, id, tp, isLocal, isRoomCreator) ==
  LET camOn == IF isLocal THEN tp.cam ELSE tp.v # NoTrack
      muted == IF isLocal THEN ~tp.mic ELSE tp.a = NoTrack
  IN IF Has(reg, id) THEN reg
     ELSE Put(reg, id, Entry(isLocal, isRoomCreator, tp.v, tp.a, muted, camOn))

\* addParticipant: the entry built from the transport participant tp.
AddParticipant(reg, id, tp, isLocal, isRoomCreator) ==
  LET camOn == IF isLocal THEN tp.cam ELSE tp.v # NoTrack
      muted == IF isLocal THEN ~tp.mic ELSE tp.a = NoTrack
  IN Put(reg, id, Entry(isLocal, isRoomCreator, tp.v, tp.a, muted, camOn))

RemoveParticipant(reg, id) == Del(reg, id)

TrackEnabledNotFalse(t) == t # "vOff"
TrackMutedTrue(t) == t = "aMuted"

\* Variant: the handle is stored, the flag of its kind is left as it was.
UpdateParticipantTrackHandleOnly(reg, id, kind, t) ==
  IF ~Has(reg, id) THEN reg
  ELSE IF kind = "video"
       THEN Put(reg, id, [reg[id] EXCEPT !.videoTrack = t])
       ELSE Put(reg, id, [reg[id] EXCEPT !.audioTrack = t])
\* updateParticipantTrack: no entry, no change (and no notification).
UpdateParticipantTrack(reg, id, kind, t) ==
  IF ~Has(reg, id) THEN reg
  ELSE IF kind = "video"
       THEN Put(reg, id, [reg[id] EXCEPT !.videoTrack = t,
                                         !.isCameraOn = TrackEnabledNotFalse(t)])
       ELSE Put(reg, id, [reg[id] EXCEPT !.audioTrack = t,
                                         !.isMuted = TrackMutedTrue(t)])

RemoveParticipantTrack(reg, id, kind) ==
  IF ~Has(reg, id) THEN reg
  ELSE IF kind = "video"
       THEN Put(reg, id, [reg[id] EXCEPT !.videoTrack = NoTrack])
       ELSE Put(reg, id, [reg[id] EXCEPT !.audioTrack = NoTrack])

\* Variant: the flag follows the track slot; it is set only when the slot
\* of that kind is empty.
UpdateParticipantMuteStatusUnlessTrack(reg, id, kind, muted) ==
  IF ~Has(reg, id) THEN reg
  ELSE IF kind = "audio"
       THEN IF reg[id].audioTrack # NoTrack THEN reg
            ELSE Put(reg, id, [reg[id] EXCEPT !.isMuted = muted])
       ELSE Put(reg, id, [reg[id] EXCEPT !.isCameraOn = ~muted])
UpdateParticipantMuteStatus(reg, id, kind, muted) ==
  IF ~Has(reg, id) THEN reg
  ELSE IF kind = "audio"
       THEN Put(reg, id, [reg[id] EXCEPT !.isMuted = muted])
       ELSE Put(reg, id, [reg[id] EXCEPT !.isCameraOn = ~muted])

\* Variant: the video handle is cleared whenever no track is published.
RefreshVideoTracksInternalClearsWhenMissing(reg, rm, loc) ==
  IF rm = NoRoom \/ ~Has(reg, LocalIdentity) THEN reg
  ELSE LET e == reg[LocalIdentity]
           a == IF loc.a # NoTrack THEN loc.a ELSE e.audioTrack
       IN Put(reg, LocalIdentity, [e EXCEPT !.videoTrack = loc.v, !.audioTrack = a])

\* refreshVideoTracksInternal, on the local entry only.
RefreshVideoTracksInternal(reg, rm, loc) ==
  IF rm = NoRoom \/ ~Has(reg, LocalIdentity) THEN reg
  ELSE LET e == reg[LocalIdentity]
           v == IF loc.v # NoTrack THEN loc.v
                ELSE IF ~loc.cam THEN NoTrack ELSE e.videoTrack
           a == IF loc.a # NoTrack THEN loc.a ELSE e.audioTrack
       IN Put(reg, LocalIdentity, [e EXCEPT !.videoTrack = v, !.audioTrack = a])

\* Variant: an entry whose participant the room does not know is dropped.
UpdateParticipantFromLiveKitDropsMissing(reg, rm, ros, id) ==
  IF rm = NoRoom \/ ~Has(reg, id) THEN reg
  ELSE IF id \notin DOMAIN ros THEN Del(reg, id)
  ELSE Put(reg, id, [reg[id] EXCEPT !.videoTrack = ros[id].v,
                                    !.audioTrack = ros[id].a,
                                    !.isCameraOn = ros[id].cam,
                                    !.isMuted = ~ros[id].mic])
\* updateParticipantFromLiveKit: getParticipantByIdentity finds the remote
\* participants of the room (and the local one under its own identity).
UpdateParticipantFromLiveKit(reg, rm, ros, id) ==
  IF rm = NoRoom \/ id \notin DOMAIN ros \/ ~Has(reg, id) THEN reg
  ELSE Put(reg, id, [reg[id] EXCEPT !.videoTrack = ros[id].v,
                                    !.audioTrack = ros[id].a,
                                    !.isCameraOn = ros[id].cam,
                                    !.isMuted = ~ros[id].mic])

RECURSIVE UpdateAllRemote(_, _, _, _)
UpdateAllRemote(reg, rm, ros, todo) ==
  IF todo = {} THEN reg
  ELSE LET id == CHOOSE x \in todo : TRUE
       IN UpdateAllRemote(UpdateParticipantFromLiveKit(reg, rm, ros, id),
                          rm, ros, todo \ {id})

RefreshAllParticipantTracks(reg, rm, loc, ros) ==
  IF rm = NoRoom THEN reg
  ELSE LET r1 == RefreshVideoTracksInternal(reg, rm, loc)
       IN UpdateAllRemote(r1, rm, ros, {id \in DOMAIN r1 : ~r1[id].isLocal})

\* ----------------------------------------------------------------- state
\* History: the handler or call that ran last, and what it recorded.
Did(op) == [op |-> op, pre |-> {}]
DidWith(op, pre) == [op |-> op, pre |-> pre]
\* A handler or a step of a call whose outcome no property reads.
Step == Did("step")
\* setTimeout callbacks by what they run: "refresh" is the callback that only
\* calls refreshVideoTracksInternal (258-260, 572-575, 903-905).
TimerKinds == {"connRefreshRestore", "connRestore", "cscRefresh", "cscRestore",
               "poorCheck", "refresh"}
NoTimers == [k \in TimerKinds |-> 0]
Idle == [pc |-> "idle", creator |-> FALSE]

\* The Room component (App.tsx) as its effect leaves it when it has created
\* the manager (178-237): connectionAttempts is 0 (170), and the connection
\* callback is a closure of that render, so the connectionAttempts it reads
\* (`seen`) is the value of that render; the effect runs again only when
\* roomName, participantName or isRoomCreator change (339).  retryTimers are
\* the pending 8 s timers of the callback, autoRetries the retryConnection()
\* calls those timers have made;
\* restoreTimers are the pending 3 s timers of its connected branch.
UiMounted == [connectionAttempts |-> 0, seen |-> 0, retryTimers |-> 0,
              autoRetries |-> 0, restoreTimers |-> 0,
              fetch |-> "none", token |-> "none"]

\* connect() calls that overlap, each with the Rooms it deals with: held is
\* this.room (0 for null, else the number of a Room object), st the state
\* of every Room object made so far, made their number; for each of the
\* two callers pc is the await its connect() is at, mine the Room it
\* created, tgt the Room whose disconnect() it awaits.  overlapped and
\* later are history: a call was made while the other caller's was in
\* flight, and which caller called last.
Callers == {1, 2}
RoomIds == 1..MaxRooms
NoCalls ==
  [held |-> 0, st |-> [r \in RoomIds |-> "none"], made |-> 0,
   pc |-> [c \in Callers |-> "idle"], mine |-> [c \in Callers |-> 0],
   tgt |-> [c \in Callers |-> 0], overlapped |-> FALSE, later |-> 0]

\* The manager as the constructor leaves it.
Init ==
  /\ room = NoRoom
  /\ roomState = "disconnected"
  /\ lp = FreshLocal
  /\ roster = EmptyReg
  /\ participants = EmptyReg
  /\ lastCameraState = FALSE
  /\ lastMicrophoneState = FALSE
  /\ restorationAttempts = 0
  /\ connPc = Idle
  /\ discPc = "idle"
  /\ pending = <<>>
  /\ restores = <<>>
  /\ timers = NoTimers
  /\ monitors = <<>>
  /\ lastConn = "none"
  /\ lastSnap = <<>>
  /\ ui = UiMounted
  /\ calls = NoCalls
  /\ last = Did("new")

mgrFlags == <<lastCameraState, lastMicrophoneState, restorationAttempts>>
asyncVars == <<pending, restores, timers, monitors>>
transport == <<roomState, lp, roster>>

\* A handler that changes the registry to reg and, when told to, calls
\* notifyParticipantsChange, which hands over the registry's current entries.
SetReg(reg, notified) ==
  /\ participants' = reg
  /\ lastSnap' = IF notified THEN <<reg>> ELSE lastSnap

\* Variant: the handler drops every remote entry, whatever the reason.
OnDisconnectedRegDropsRemotes(reg, rm, reason) ==
  [id \in {x \in DOMAIN reg : reg[x].isLocal} |-> reg[id]]
\* RoomEvent.Disconnected handler (273-289) on a registry.
OnDisconnectedReg(reg, rm, reason) ==
  IF IsPermanentReason(reason) /\ rm # NoRoom
  THEN RemoveParticipantTrack(RemoveParticipantTrack(reg, LocalIdentity, "video"),
                              LocalIdentity, "audio")
  ELSE reg
OnDisconnectedNotifies(reg, rm, reason) ==
  IsPermanentReason(reason) /\ rm # NoRoom /\ Has(reg, LocalIdentity)

\* room.disconnect(): the transport leaves; it reports the state change and
\* then Disconnected(CLIENT_INITIATED) unless it was disconnected already.
RoomDisconnect ==
  /\ roomState' = "disconnected"
  /\ UNCHANGED <<lp, roster>>
  /\ IF roomState # "disconnected"
     THEN /\ lastConn' = "false"
          /\ SetReg(OnDisconnectedReg(participants, room, "CLIENT_INITIATED"),
                    OnDisconnectedNotifies(participants, room, "CLIENT_INITIATED"))
     ELSE UNCHANGED <<lastConn, participants, lastSnap>>
  /\ last' = IF roomState # "disconnected"
             THEN DidWith("DisconnectedPermanent", DOMAIN participants)
             ELSE Step

\* this.room is replaced or dropped: what is in flight belongs to a Room
\* that is no longer this.room.
Stale(q) == [i \in 1..Len(q) |-> [q[i] EXCEPT !.cur = FALSE]]

\* new Room(...), setupEventListeners(), room.connect(url, token) (47-77).
CreateRoomAndConnect(creator) ==
  /\ room' = TheRoom
  /\ pending' = Stale(pending)
  /\ restores' = Stale(restores)
  /\ roomState' = "connecting"
  /\ lp' = FreshLocal
  /\ roster' = EmptyReg
  /\ connPc' = [pc |-> "race", creator |-> creator]

\* connect(), up to its first await.
ConnectCall(creator) ==
  /\ connPc.pc = "idle"
  /\ discPc = "idle"
  /\ Len(monitors) < MaxMonitors
  /\ IF room # NoRoom
     THEN /\ RoomDisconnect
          /\ connPc' = [pc |-> "teardown", creator |-> creator]
          /\ UNCHANGED <<room, pending, restores>>
     ELSE /\ CreateRoomAndConnect(creator)
          /\ last' = Step
          /\ UNCHANGED <<participants, lastSnap, lastConn>>
  /\ UNCHANGED <<mgrFlags, discPc, timers, monitors>>
  /\ UNCHANGED <<ui, calls>>

\* Variant: the new Room is created with the registry left as it is.
ConnectTeardownDoneKeepsRegistry ==
  /\ connPc.pc = "teardown"
  /\ lastConn' = "false"
  /\ CreateRoomAndConnect(connPc.creator)
  /\ last' = Did("connect:replaced")
  /\ UNCHANGED <<participants, mgrFlags, discPc, timers, monitors, lastSnap>>
  /\ UNCHANGED <<ui, calls>>
\* connect() after `await this.disconnect()`: the rest of disconnect() and
\* then the new Room.
ConnectTeardownDone ==
  /\ connPc.pc = "teardown"
  /\ participants' = EmptyReg
  /\ lastConn' = "false"
  /\ CreateRoomAndConnect(connPc.creator)
  /\ last' = Did("connect:replaced")
  /\ UNCHANGED <<mgrFlags, discPc, timers, monitors, lastSnap>>
  /\ UNCHANGED <<ui, calls>>

\* Promise.race settles with the transport connected; waitForConnection
\* finds the room connected and waitForEngineReady starts (82-85, 138-160).
ConnectRaceResolved ==
  /\ connPc.pc = "race"
  /\ room # NoRoom
  /\ roomState = "connected"
  /\ connPc' = [connPc EXCEPT !.pc = "engine"]
  /\ last' = Step
  /\ UNCHANGED <<room, transport, participants, mgrFlags, discPc,
                 asyncVars, lastConn, lastSnap>>
  /\ UNCHANGED <<ui, calls>>

\* Promise.race rejects (transport error or the 45 s timeout), or the room
\* was dropped meanwhile: the catch block starts (101-106).
ConnectRaceRejected ==
  /\ connPc.pc = "race"
  /\ roomState # "connected"
  /\ IF room # NoRoom
     THEN /\ RoomDisconnect
          /\ connPc' = [connPc EXCEPT !.pc = "cleanup"]
     ELSE /\ connPc' = Idle
          /\ last' = Did("connect:rejected")
          /\ UNCHANGED <<transport, lastConn, participants, lastSnap>>
  /\ UNCHANGED <<room, mgrFlags, discPc, asyncVars>>
  /\ UNCHANGED <<ui, calls>>

\* Variant: the catch block rethrows and keeps the room.
ConnectCleanupDoneKeepsRoom ==
  /\ connPc.pc = "cleanup"
  /\ connPc' = Idle
  /\ last' = Did("connect:rejected")
  /\ UNCHANGED <<room, transport, participants, mgrFlags, discPc, asyncVars,
                 lastConn, lastSnap>>
  /\ UNCHANGED <<ui, calls>>
\* The catch block after `await this.room.disconnect()` (110-112).
ConnectCleanupDone ==
  /\ connPc.pc = "cleanup"
  /\ room' = NoRoom
  /\ pending' = Stale(pending)
  /\ restores' = Stale(restores)
  /\ connPc' = Idle
  /\ last' = Did("connect:rejected")
  /\ UNCHANGED <<transport, participants, mgrFlags, discPc, timers, monitors,
                 lastConn, lastSnap>>
  /\ UNCHANGED <<ui, calls>>

\* connect() after waitForEngineReady: addParticipant(local) and the
\* stability monitor (88-99), a setInterval closure kept as its
\* connectionStableCount; with the room dropped meanwhile, line 88 throws
\* and the catch block finds no room.
ConnectFinish ==
  /\ connPc.pc = "engine"
  /\ connPc' = Idle
  /\ IF room # NoRoom
     THEN /\ SetReg(AddParticipant(participants, LocalIdentity, lp, TRUE, connPc.creator), TRUE)
          /\ monitors' = Append(monitors, 0)
     ELSE /\ UNCHANGED <<participants, lastSnap, monitors>>
  /\ last' = Did(IF room # NoRoom THEN "connect:ok" ELSE "connect:rejected")
  /\ UNCHANGED <<room, transport, mgrFlags, discPc, pending, restores, timers,
                 lastConn>>
  /\ UNCHANGED <<ui, calls>>

\* Variant: disconnect() without a room resets the desired-camera flag.
DisconnectCallResetsDesired ==
  /\ discPc = "idle"
  /\ connPc.pc \in {"idle", "race", "engine"}
  /\ IF room # NoRoom
     THEN /\ RoomDisconnect
          /\ discPc' = "await"
          /\ UNCHANGED mgrFlags
     ELSE /\ UNCHANGED <<transport, lastConn, participants, lastSnap, discPc,
                         lastMicrophoneState, restorationAttempts>>
          /\ lastCameraState' = FALSE
          /\ last' = Did("disconnect:noRoom")
  /\ UNCHANGED <<room, connPc, asyncVars>>
  /\ UNCHANGED <<ui, calls>>
\* disconnect(), up to `await this.room.disconnect()` (602-604).
DisconnectCall ==
  /\ discPc = "idle"
  /\ connPc.pc \in {"idle", "race", "engine"}
  /\ IF room # NoRoom
     THEN /\ RoomDisconnect
          /\ discPc' = "await"
     ELSE /\ UNCHANGED <<transport, lastConn, participants, lastSnap, discPc>>
          /\ last' = Did("disconnect:noRoom")
  /\ UNCHANGED <<room, mgrFlags, connPc, asyncVars>>
  /\ UNCHANGED <<ui, calls>>

\* Variant: disconnect() drops the room and leaves the registry as it is.
DisconnectDoneKeepsRegistry ==
  /\ discPc = "await"
  /\ discPc' = "idle"
  /\ room' = NoRoom
  /\ pending' = Stale(pending)
  /\ restores' = Stale(restores)
  /\ lastConn' = "false"
  /\ last' = Did("disconnect:ok")
  /\ UNCHANGED <<transport, participants, mgrFlags, connPc, timers, monitors, lastSnap>>
  /\ UNCHANGED <<ui, calls>>
\* disconnect() after the await (605-607).
DisconnectDone ==
  /\ discPc = "await"
  /\ discPc' = "idle"
  /\ room' = NoRoom
  /\ pending' = Stale(pending)
  /\ restores' = Stale(restores)
  /\ participants' = EmptyReg
  /\ lastConn' = "false"
  /\ last' = Did("disconnect:ok")
  /\ UNCHANGED <<transport, mgrFlags, connPc, timers, monitors, lastSnap>>
  /\ UNCHANGED <<ui, calls>>

\* ------------------------------------------------- transport: connection
Schedule(tm, kinds) == [k \in TimerKinds |-> IF k \in kinds THEN tm[k] + 1 ELSE tm[k]]
CanSchedule(tm, kinds) == \A k \in kinds : tm[k] < MaxTimers
Cancel(tm, k) == [tm EXCEPT ![k] = tm[k] - 1]

StateMoves ==
  {<<"connecting", "connected">>, <<"connecting", "disconnected">>,
   <<"connected", "reconnecting">>, <<"connected", "disconnected">>,
   <<"reconnecting", "connected">>, <<"reconnecting", "disconnected">>}

\* Variant: the handler sets the restoration timer together with the
\* refresh timer.
EvConnectionStateChangedSetsRestoreTimer(s) ==
  /\ room # NoRoom
  /\ <<roomState, s>> \in StateMoves
  /\ roomState' = s
  /\ IF s = "connected"
     THEN /\ CanSchedule(timers, {"cscRefresh", "cscRestore"})
          /\ lastConn' = "true"
          /\ timers' = Schedule(timers, {"cscRefresh", "cscRestore"})
     ELSE /\ lastConn' = IF s = "disconnected" THEN "false" ELSE lastConn
          /\ UNCHANGED timers
  /\ last' = IF last.op = "DisconnectedTransient" THEN last
             ELSE Step
  /\ UNCHANGED <<room, lp, roster, participants, mgrFlags, connPc, discPc,
                 pending, restores, monitors, lastSnap>>
  /\ UNCHANGED <<ui, calls>>
\* The room changes state and emits ConnectionStateChanged (313-337).
EvConnectionStateChanged(s) ==
  /\ room # NoRoom
  /\ <<roomState, s>> \in StateMoves
  /\ roomState' = s
  /\ IF s = "connected"
     THEN /\ CanSchedule(timers, {"cscRefresh"})
          /\ lastConn' = "true"
          /\ timers' = Schedule(timers, {"cscRefresh"})
     ELSE /\ lastConn' = IF s = "disconnected" THEN "false" ELSE lastConn
          /\ UNCHANGED timers
  /\ last' = IF last.op = "DisconnectedTransient" THEN last
             ELSE Step
  /\ UNCHANGED <<room, lp, roster, participants, mgrFlags, connPc, discPc,
                 pending, restores, monitors, lastSnap>>
  /\ UNCHANGED <<ui, calls>>

\* RoomEvent.Connected (291-306).
EvConnected ==
  /\ room # NoRoom
  /\ roomState = "connected"
  /\ CanSchedule(timers, {"connRefreshRestore", "connRestore"})
  /\ lastConn' = "true"
  /\ timers' = Schedule(timers, {"connRefreshRestore", "connRestore"})
  /\ last' = IF last.op = "DisconnectedTransient"
             THEN DidWith("ConnectedAfterTransient", last.pre)
             ELSE Step
  /\ UNCHANGED <<room, transport, participants, mgrFlags, connPc, discPc,
                 pending, restores, monitors, lastSnap>>
  /\ UNCHANGED <<ui, calls>>

\* Variant: with the room reconnecting the desired flags are reset.
EvReconnectingResetsDesired ==
  /\ room # NoRoom
  /\ roomState = "reconnecting"
  /\ lastConn' = "false"
  /\ lastCameraState' = FALSE
  /\ lastMicrophoneState' = FALSE
  /\ last' = Step
  /\ UNCHANGED <<room, transport, participants, restorationAttempts, connPc,
                 discPc, asyncVars, lastSnap>>
  /\ UNCHANGED <<ui, calls>>
\* RoomEvent.Reconnecting (308-311).
EvReconnecting ==
  /\ room # NoRoom
  /\ roomState = "reconnecting"
  /\ lastConn' = "false"
  /\ last' = Step
  /\ UNCHANGED <<room, transport, participants, mgrFlags, connPc, discPc,
                 asyncVars, lastSnap>>
  /\ UNCHANGED <<ui, calls>>

\* RoomEvent.Disconnected (273-289), reported by a room that the server
\* has closed or dropped, or by one that lost its connection and is trying
\* to come back.  A room the manager disconnects reports it in RoomDisconnect.
EvDisconnected(reason) ==
  /\ room # NoRoom
  /\ \/ /\ roomState = "disconnected"
        /\ reason # "CLIENT_INITIATED"
        /\ connPc.pc \notin {"teardown", "cleanup"}
        /\ discPc = "idle"
     \/ roomState = "reconnecting" /\ reason \notin {"CLIENT_INITIATED", "SERVER_SHUTDOWN"}
  /\ lastConn' = "false"
  /\ SetReg(OnDisconnectedReg(participants, room, reason),
            OnDisconnectedNotifies(participants, room, reason))
  /\ last' = DidWith(IF reason \in {"CLIENT_INITIATED", "SERVER_SHUTDOWN"}
                     THEN "DisconnectedPermanent" ELSE "DisconnectedTransient",
                     DOMAIN participants)
  /\ UNCHANGED <<room, transport, mgrFlags, connPc, discPc, asyncVars>>
  /\ UNCHANGED <<ui, calls>>

\* ------------------------------------------------ transport: participants
Live == room # NoRoom /\ roomState # "disconnected"

RemoteParts ==
  {TPart(c, m, v, a) : c \in BOOLEAN, m \in BOOLEAN,
                       v \in VideoTracks \cup {NoTrack}, a \in AudioTracks \cup {NoTrack}}

\* RoomEvent.ParticipantConnected (193-199).
EvParticipantConnected(p, tp) ==
  /\ Live
  /\ p \notin DOMAIN roster
  /\ roster' = Put(roster, p, tp)
  /\ SetReg(AddParticipant(participants, p, tp, FALSE, FALSE), TRUE)
  /\ last' = DidWith("ParticipantConnected", [id |-> p])
  /\ UNCHANGED <<room, roomState, lp, mgrFlags, connPc, discPc, asyncVars,
                 lastConn>>
  /\ UNCHANGED <<ui, calls>>

\* The last step added the remote participant p.
JustAdded(p) ==
  /\ last.op \in {"ParticipantConnected", "ParticipantConnectedAgain"}
  /\ last.pre.id = p

\* RoomEvent.ParticipantConnected (193-199) for an identity the transport
\* has announced before: the handler runs addParticipant on the same
\* RemoteParticipant again.
EvParticipantConnectedAgain(p) ==
  /\ Live
  /\ p \in DOMAIN roster
  /\ SetReg(AddParticipant(participants, p, roster[p], FALSE, FALSE), TRUE)
  /\ last' = DidWith("ParticipantConnectedAgain",
                     [id |-> p, reg |-> participants, fresh |-> JustAdded(p)])
  /\ UNCHANGED <<room, transport, mgrFlags, connPc, discPc, asyncVars, lastConn>>
  /\ UNCHANGED <<ui, calls>>

\* RoomEvent.ParticipantDisconnected (201-203).
EvParticipantDisconnected(p) ==
  /\ Live
  /\ p \in DOMAIN roster
  /\ roster' = Del(roster, p)
  /\ SetReg(RemoveParticipant(participants, p), TRUE)
  /\ last' = Step
  /\ UNCHANGED <<room, roomState, lp, mgrFlags, connPc, discPc, asyncVars,
                 lastConn>>
  /\ UNCHANGED <<ui, calls>>

SetTrack(tp, kind, t) == IF kind = "video" THEN [tp EXCEPT !.v = t] ELSE [tp EXCEPT !.a = t]
TrackOf(tp, kind) == IF kind = "video" THEN tp.v ELSE tp.a
SetEnabled(tp, kind, b) == IF kind = "video" THEN [tp EXCEPT !.cam = b] ELSE [tp EXCEPT !.mic = b]
EnabledOf(tp, kind) == IF kind = "video" THEN tp.cam ELSE tp.mic

\* RoomEvent.TrackPublished (211-217): the remote publication exists, no
\* track is subscribed yet; the handler only logs.
EvTrackPublished(p, kind) ==
  /\ Live
  /\ p \in DOMAIN roster
  /\ TrackOf(roster[p], kind) = NoTrack
  /\ ~EnabledOf(roster[p], kind)
  /\ roster' = Put(roster, p, SetEnabled(roster[p], kind, TRUE))
  /\ last' = DidWith("TrackPublished", [id |-> p, kind |-> kind, reg |-> participants])
  /\ UNCHANGED <<room, roomState, lp, participants, mgrFlags, connPc, discPc,
                 asyncVars, lastConn, lastSnap>>
  /\ UNCHANGED <<ui, calls>>

\* RoomEvent.TrackSubscribed (205-208).
EvTrackSubscribed(p, kind, t) ==
  /\ Live
  /\ p \in DOMAIN roster
  /\ TrackOf(roster[p], kind) # t
  /\ roster' = Put(roster, p, SetTrack(roster[p], kind, t))
  /\ SetReg(UpdateParticipantTrack(participants, p, kind, t), Has(participants, p))
  /\ last' = DidWith("TrackSubscribed", [id |-> p, kind |-> kind,
                                          had |-> Has(participants, p)])
  /\ UNCHANGED <<room, roomState, lp, mgrFlags, connPc, discPc, asyncVars,
                 lastConn>>
  /\ UNCHANGED <<ui, calls>>

\* RoomEvent.TrackUnsubscribed (219-222).
EvTrackUnsubscribed(p, kind) ==
  /\ room # NoRoom
  /\ p \in DOMAIN roster
  /\ TrackOf(roster[p], kind) # NoTrack
  /\ roster' = Put(roster, p, SetTrack(roster[p], kind, NoTrack))
  /\ SetReg(RemoveParticipantTrack(participants, p, kind), Has(participants, p))
  /\ last' = Step
  /\ UNCHANGED <<room, roomState, lp, mgrFlags, connPc, discPc, asyncVars,
                 lastConn>>
  /\ UNCHANGED <<ui, calls>>

\* RoomEvent.TrackMuted / TrackUnmuted of a remote participant (265-271).
EvTrackMuted(p, kind, muted) ==
  /\ Live
  /\ p \in DOMAIN roster
  /\ EnabledOf(roster[p], kind) = muted
  /\ roster' = Put(roster, p, SetEnabled(roster[p], kind, ~muted))
  /\ SetReg(UpdateParticipantMuteStatus(participants, p, kind, muted), Has(participants, p))
  /\ last' = DidWith("TrackMuted", [id |-> p, kind |-> kind, muted |-> muted])
  /\ UNCHANGED <<room, roomState, lp, mgrFlags, connPc, discPc, asyncVars,
                 lastConn>>
  /\ UNCHANGED <<ui, calls>>

\* --------------------------------------------- transport: local participant
\* RoomEvent.LocalTrackPublished (225-230): the publication carries a track.
EvLocalTrackPublished(kind, t) ==
  /\ Live
  /\ TrackOf(lp, kind) # t
  /\ lp' = SetTrack(lp, kind, t)
  /\ SetReg(UpdateParticipantTrack(participants, LocalIdentity, kind, t),
            Has(participants, LocalIdentity))
  /\ last' = Step
  /\ UNCHANGED <<room, roomState, roster, mgrFlags, connPc, discPc, asyncVars,
                 lastConn>>
  /\ UNCHANGED <<ui, calls>>

\* RoomEvent.LocalTrackUnpublished (232-239): acts only in a disconnected room.
EvLocalTrackUnpublished(kind) ==
  /\ room # NoRoom
  /\ TrackOf(lp, kind) # NoTrack
  /\ lp' = SetEnabled(SetTrack(lp, kind, NoTrack), kind, FALSE)
  /\ IF roomState = "disconnected"
     THEN SetReg(RemoveParticipantTrack(participants, LocalIdentity, kind),
                 Has(participants, LocalIdentity))
     ELSE UNCHANGED <<participants, lastSnap>>
  /\ last' = Step
  /\ UNCHANGED <<room, roomState, roster, mgrFlags, connPc, discPc, asyncVars,
                 lastConn>>
  /\ UNCHANGED <<ui, calls>>

\* The transport loses a local device while the room is not connected: the
\* enabled flag of the local participant drops, no event reaches the manager.
EnvLocalDeviceLost(kind) ==
  /\ room # NoRoom
  /\ roomState # "connected"
  /\ EnabledOf(lp, kind)
  /\ lp' = SetEnabled(lp, kind, FALSE)
  /\ last' = Step
  /\ UNCHANGED <<room, roomState, roster, participants, mgrFlags, connPc, discPc,
                 asyncVars, lastConn, lastSnap>>
  /\ UNCHANGED <<ui, calls>>

\* ------------------------------------------------------------ device calls
\* A setCameraEnabled / setMicrophoneEnabled call the transport has not
\* settled: the value asked for, who issued it, and whether the Room it was
\* issued on is still this.room (cur).
Call(dev, want, by) == [dev |-> dev, want |-> want, by |-> by, cur |-> TRUE]
LocalFlag(reg, dev) ==
  IF ~Has(reg, LocalIdentity) THEN "none"
  ELSE IF dev = "cam" THEN (IF reg[LocalIdentity].isCameraOn THEN "true" ELSE "false")
  ELSE (IF reg[LocalIdentity].isMuted THEN "true" ELSE "false")
Connected == room # NoRoom /\ roomState = "connected"
\* History of a toggle that went on: whether the room was connected, the
\* desired flag and the local entry's flag before the call.
PreToggle(dev) ==
  [up |-> Connected,
   desired |-> IF dev = "cam" THEN lastCameraState ELSE lastMicrophoneState,
   flag |-> LocalFlag(participants, dev)]
\* History of a toggle that threw at once: what the manager held.
PreRefused ==
  [up |-> Connected, reg |-> participants, cam |-> lastCameraState,
   mic |-> lastMicrophoneState, calls |-> pending]
\* Variant: the toggles check only that a room is held.
ToggleGuardRoomOnly == room # NoRoom
\* toggleCamera / toggleMicrophone go on only with a connected room (543-551).
ToggleGuard == room # NoRoom /\ roomState = "connected"
Without(q, i) == [j \in 1..(Len(q) - 1) |-> IF j < i THEN q[j] ELSE q[j + 1]]
SetLocal(reg, field, val) ==
  IF ~Has(reg, LocalIdentity) THEN reg
  ELSE Put(reg, LocalIdentity,
           IF field = "isCameraOn" THEN [reg[LocalIdentity] EXCEPT !.isCameraOn = val]
           ELSE [reg[LocalIdentity] EXCEPT !.isMuted = val])

\* toggleCamera(), up to `await setCameraEnabled(!isEnabled)` (542-566).
ToggleCameraCall ==
  /\ IF ~ToggleGuard
     THEN /\ last' = DidWith(IF room = NoRoom THEN "toggleCamera:notInitialized"
                             ELSE "toggleCamera:notConnected", PreRefused)
          /\ UNCHANGED <<participants, lastSnap, lastCameraState, pending>>
     ELSE /\ Len(pending) < MaxPending
          /\ SetReg(SetLocal(participants, "isCameraOn", ~lp.cam),
                    Has(participants, LocalIdentity))
          /\ lastCameraState' = IF Has(participants, LocalIdentity) THEN ~lp.cam
                                ELSE lastCameraState
          /\ pending' = Append(pending, Call("cam", ~lp.cam, "toggle"))
          /\ last' = IF last.op = "toggleCamera" THEN DidWith("toggleCamera2", last.pre)
                     ELSE DidWith("toggleCamera", PreToggle("cam"))
  /\ UNCHANGED <<room, transport, lastMicrophoneState, restorationAttempts,
                 connPc, discPc, restores, timers, monitors, lastConn>>
  /\ UNCHANGED <<ui, calls>>

\* toggleMicrophone(), up to `await setMicrophoneEnabled(!isEnabled)` (501-525).
ToggleMicrophoneCall ==
  /\ IF ~ToggleGuard
     THEN /\ last' = DidWith(IF room = NoRoom THEN "toggleMicrophone:notInitialized"
                             ELSE "toggleMicrophone:notConnected", PreRefused)
          /\ UNCHANGED <<participants, lastSnap, lastMicrophoneState, pending>>
     ELSE /\ Len(pending) < MaxPending
          /\ SetReg(SetLocal(participants, "isMuted", ~lp.mic),
                    Has(participants, LocalIdentity))
          /\ lastMicrophoneState' = IF Has(participants, LocalIdentity) THEN ~lp.mic
                                    ELSE lastMicrophoneState
          /\ pending' = Append(pending, Call("mic", ~lp.mic, "toggle"))
          /\ last' = IF last.op = "toggleMicrophone"
                     THEN DidWith("toggleMicrophone2", last.pre)
                     ELSE DidWith("toggleMicrophone", PreToggle("mic"))
  /\ UNCHANGED <<room, transport, lastCameraState, restorationAttempts,
                 connPc, discPc, restores, timers, monitors, lastConn>>
  /\ UNCHANGED <<ui, calls>>

\* The transport settles a device call.  It succeeds only on the room it was
\* issued on, while that room is connected.  A toggle's continuation runs
\* in the same turn: the refresh timer after switching the camera on
\* (569-576), or the catch block (530-538, 578-586).  A call issued by
\* restoreCameraState has no continuation.
DeviceCallSettles(i, ok) ==
  /\ i \in 1..Len(pending)
  /\ ok => (pending[i].cur /\ Connected)
  /\ LET c == pending[i]
         kind == IF c.dev = "cam" THEN "video" ELSE "audio"
         lp2 == IF ok THEN SetEnabled(lp, kind, c.want) ELSE lp
         name == IF c.dev = "cam" THEN "toggleCamera" ELSE "toggleMicrophone"
     IN /\ lp' = lp2
        /\ pending' = Without(pending, i)
        /\ IF c.by # "toggle"
           THEN /\ UNCHANGED <<participants, lastSnap, timers>>
                /\ last' = Step
           ELSE IF ok
           THEN /\ IF c.dev = "cam" /\ c.want
                   THEN /\ CanSchedule(timers, {"refresh"})
                        /\ timers' = Schedule(timers, {"refresh"})
                   ELSE UNCHANGED timers
                /\ UNCHANGED <<participants, lastSnap>>
                /\ last' = Did(name \o ":ok")
           ELSE /\ IF room = NoRoom
                   THEN UNCHANGED <<participants, lastSnap>>
                   ELSE SetReg(IF c.dev = "cam"
                               THEN SetLocal(participants, "isCameraOn", lp2.cam)
                               ELSE SetLocal(participants, "isMuted", lp2.mic),
                               Has(participants, LocalIdentity))
                /\ UNCHANGED timers
                /\ last' = IF last.op = name THEN DidWith(name \o ":rejectedAtOnce", last.pre)
                           ELSE Did(name \o ":rejected")
  /\ UNCHANGED <<room, roomState, roster, mgrFlags, connPc, discPc, restores,
                 monitors, lastConn>>
  /\ UNCHANGED <<ui, calls>>

\* ------------------------------------------------------------- restoration
\* restoreCameraState() (869-912), synchronous part on the registry.
RestoreReg(reg) ==
  IF room # NoRoom /\ lastCameraState THEN SetLocal(reg, "isCameraOn", TRUE) ELSE reg
RestoreNotifies(reg) == room # NoRoom /\ lastCameraState /\ Has(reg, LocalIdentity)

\* The .then() callback of restoreCameraState (896-906): the enable call and
\* the refresh timer.  localParticipant is the one captured when the pass
\* started (cur: of the Room that is still this.room); a Room that was left
\* has its camera off.
EnableAfterWait(tm, cur) ==
  IF Connected /\ (cur => ~lp.cam)
  THEN /\ Len(pending) < MaxPending
       /\ CanSchedule(tm, {"refresh"})
       /\ pending' = Append(pending, Call("cam", TRUE, "restore"))
       /\ timers' = Schedule(tm, {"refresh"})
  ELSE /\ pending' = pending
       /\ timers' = tm

\* restoreCameraState() apart from the registry: the counter, and
\* waitForEngineBeforePublish() (795-814) up to its first 100 ms wait.  With
\* the engine ready at once the .then() callback runs in the same turn.
RestoreActs(tm) ==
  IF room = NoRoom \/ ~lastCameraState
  THEN /\ timers' = tm
       /\ UNCHANGED <<restorationAttempts, pending, restores>>
  ELSE /\ restorationAttempts < MaxAttempts
       /\ restorationAttempts' = restorationAttempts + 1
       /\ IF roomState # "connected"
          THEN /\ timers' = tm
               /\ UNCHANGED <<pending, restores>>
          ELSE \E ready \in BOOLEAN :
                 IF ready
                 THEN EnableAfterWait(tm, TRUE) /\ UNCHANGED restores
                 ELSE /\ Len(restores) < MaxRestores
                      /\ restores' = Append(restores, [polls |-> 1, cur |-> TRUE])
                      /\ timers' = tm
                      /\ UNCHANGED pending

\* waitForEngineBeforePublish() wakes from a 100 ms wait (806-810):
\* isEngineReady() is false when the room is gone or not connected.
MaxEnginePolls == 5
\* Variant: a wait that reaches its bound gives up without the enable call.
RestorePollGivesUp(i) ==
  /\ i \in 1..Len(restores)
  /\ \E ready \in BOOLEAN :
       /\ ready => Connected
       /\ IF ~ready /\ restores[i].polls < MaxEnginePolls
          THEN /\ restores' = [restores EXCEPT ![i].polls = @ + 1]
               /\ UNCHANGED <<pending, timers>>
          ELSE /\ restores' = Without(restores, i)
               /\ IF ready THEN EnableAfterWait(timers, restores[i].cur)
                  ELSE UNCHANGED <<pending, timers>>
  /\ last' = DidWith("restorePoll", [polls |-> restores[i].polls])
  /\ UNCHANGED <<room, transport, participants, mgrFlags, connPc, discPc,
                 monitors, lastConn, lastSnap>>
  /\ UNCHANGED <<ui, calls>>
RestorePoll(i) ==
  /\ i \in 1..Len(restores)
  /\ \E ready \in BOOLEAN :
       /\ ready => Connected
       /\ IF ~ready /\ restores[i].polls < MaxEnginePolls
          THEN /\ restores' = [restores EXCEPT ![i].polls = @ + 1]
               /\ UNCHANGED <<pending, timers>>
          ELSE /\ restores' = Without(restores, i)
               /\ EnableAfterWait(timers, restores[i].cur)
  /\ last' = DidWith("restorePoll", [polls |-> restores[i].polls])
  /\ UNCHANGED <<room, transport, participants, mgrFlags, connPc, discPc,
                 monitors, lastConn, lastSnap>>
  /\ UNCHANGED <<ui, calls>>

RefreshNotifies(reg) == room # NoRoom /\ Has(reg, LocalIdentity)

\* The timer callbacks.  "connRefreshRestore": 296-300; "connRestore":
\* 303-305; "cscRefresh": 321-330; "cscRestore": 326-328; "poorCheck":
\* 249-253; "refresh": refreshVideoTracksInternal alone.
TimerFires(k) ==
  /\ timers[k] > 0
  /\ LET tm == Cancel(timers, k)
         fresh == RefreshVideoTracksInternal(participants, room, lp)
     IN CASE k = "connRefreshRestore" ->
               /\ SetReg(RestoreReg(fresh), RefreshNotifies(participants) \/ RestoreNotifies(fresh))
               /\ RestoreActs(tm)
          [] k \in {"connRestore", "cscRestore"} ->
               /\ SetReg(RestoreReg(participants), RestoreNotifies(participants))
               /\ RestoreActs(tm)
          [] k = "poorCheck" ->
               IF Connected /\ lastCameraState
               THEN /\ SetReg(RestoreReg(participants), RestoreNotifies(participants))
                    /\ RestoreActs(tm)
               ELSE /\ timers' = tm
                    /\ UNCHANGED <<participants, lastSnap, restorationAttempts, pending, restores>>
          [] k = "cscRefresh" ->
               /\ SetReg(fresh, RefreshNotifies(participants))
               /\ IF lastCameraState
                  THEN CanSchedule(tm, {"cscRestore"}) /\ timers' = Schedule(tm, {"cscRestore"})
                  ELSE timers' = tm
               /\ UNCHANGED <<restorationAttempts, pending, restores>>
          [] OTHER ->
               /\ SetReg(fresh, RefreshNotifies(participants))
               /\ timers' = tm
               /\ UNCHANGED <<restorationAttempts, pending, restores>>
  /\ last' = Step
  /\ UNCHANGED <<room, transport, lastCameraState, lastMicrophoneState,
                 connPc, discPc, monitors, lastConn>>
  /\ UNCHANGED <<ui, calls>>

\* RoomEvent.ConnectionQualityChanged for the local participant (242-263).
Qualities == {"excellent", "good", "poor", "lost"}
\* Variant: a Poor signal sets the delayed check whatever the desired camera.
EvConnectionQualityChangedAnyDesired(q) ==
  /\ Live
  /\ LET ks == (IF q = "poor" THEN {"poorCheck"} ELSE {})
               \cup (IF q \in {"excellent", "good"} THEN {"refresh"} ELSE {})
     IN /\ CanSchedule(timers, ks)
        /\ timers' = Schedule(timers, ks)
  /\ last' = Step
  /\ UNCHANGED <<room, transport, participants, mgrFlags, connPc, discPc,
                 pending, restores, monitors, lastConn, lastSnap>>
  /\ UNCHANGED <<ui, calls>>
EvConnectionQualityChanged(q) ==
  /\ Live
  /\ LET ks == (IF q = "poor" /\ lastCameraState THEN {"poorCheck"} ELSE {})
               \cup (IF q \in {"excellent", "good"} THEN {"refresh"} ELSE {})
     IN /\ CanSchedule(timers, ks)
        /\ timers' = Schedule(timers, ks)
  /\ last' = Step
  /\ UNCHANGED <<room, transport, participants, mgrFlags, connPc, discPc,
                 pending, restores, monitors, lastConn, lastSnap>>
  /\ UNCHANGED <<ui, calls>>

\* RoomEvent.ConnectionQualityChanged for a remote participant: the handler
\* does nothing unless participant === this.room?.localParticipant (243).
EvRemoteConnectionQualityChanged(p, q) ==
  /\ Live
  /\ p \in DOMAIN roster
  /\ last' = DidWith("RemoteConnectionQualityChanged", [id |-> p, q |-> q])
  /\ UNCHANGED <<room, transport, participants, mgrFlags, connPc, discPc,
                 asyncVars, lastConn, lastSnap>>
  /\ UNCHANGED <<ui, calls>>

\* One tick of a stability monitor, checkConnection (975-1015).  poor is
\* localParticipant.connectionQuality === Poor as the tick reads it.
requiredStableChecks == 5
MonitorTick(i, poor) ==
  /\ i \in 1..Len(monitors)
  /\ IF ~Connected
     THEN /\ monitors' = [monitors EXCEPT ![i] = 0]
          /\ UNCHANGED <<participants, lastSnap, restorationAttempts, pending, restores, timers>>
     ELSE LET n == IF monitors[i] < requiredStableChecks THEN monitors[i] + 1 ELSE monitors[i]
              hasVideoTrack == Has(participants, LocalIdentity)
                               /\ participants[LocalIdentity].videoTrack # NoTrack
              restore == n >= requiredStableChecks /\ lastCameraState /\ lp.cam
                         /\ ~hasVideoTrack /\ restorationAttempts < 2
              refresh == n >= requiredStableChecks /\ poor /\ ~hasVideoTrack /\ lastCameraState
              r1 == IF restore THEN RestoreReg(participants) ELSE participants
              r2 == IF refresh THEN RefreshVideoTracksInternal(r1, room, lp) ELSE r1
          IN /\ monitors' = [monitors EXCEPT ![i] = n]
             /\ SetReg(r2, (restore /\ RestoreNotifies(participants))
                           \/ (refresh /\ RefreshNotifies(r1)))
             /\ IF restore THEN RestoreActs(timers)
                ELSE UNCHANGED <<restorationAttempts, pending, restores, timers>>
  /\ last' = Step
  /\ UNCHANGED <<room, transport, lastCameraState, lastMicrophoneState,
                 connPc, discPc, lastConn>>
  /\ UNCHANGED <<ui, calls>>

\* -------------------------------------------------------- refresh requests
\* refreshAllParticipantTracks() (681-696).
RefreshAllCall ==
  /\ SetReg(RefreshAllParticipantTracks(participants, room, lp, roster),
            room # NoRoom /\ participants # EmptyReg
            /\ (Has(participants, LocalIdentity)
                \/ \E id \in DOMAIN participants :
                     ~participants[id].isLocal /\ id \in DOMAIN roster))
  /\ last' = IF last.op = "refreshAll" THEN DidWith("refreshAll2", last.pre)
             ELSE DidWith("refreshAll", [ids |-> DOMAIN participants,
                                         after |-> participants'])
  /\ UNCHANGED <<room, transport, mgrFlags, connPc, discPc, asyncVars, lastConn>>
  /\ UNCHANGED <<ui, calls>>

\* refreshVideoTracks() (676-678): refreshVideoTracksInternal and nothing
\* else.
RefreshVideoTracksCall ==
  /\ SetReg(RefreshVideoTracksInternal(participants, room, lp),
            RefreshNotifies(participants))
  /\ last' = DidWith("refreshVideoTracks", [reg |-> participants])
  /\ UNCHANGED <<room, transport, mgrFlags, connPc, discPc, asyncVars, lastConn>>
  /\ UNCHANGED <<ui, calls>>

\* -------------------------------------------------------- desired camera
\* setCameraState(state) (760-768): the flag is written with the room
\* connected or with no room, and kept in every other state of the room.
SetCameraStateCall(state) ==
  /\ lastCameraState' = IF room = NoRoom \/ roomState = "connected" THEN state
                        ELSE lastCameraState
  /\ last' = Did("setCameraState")
  /\ UNCHANGED <<room, transport, participants, lastMicrophoneState,
                 restorationAttempts, connPc, discPc, asyncVars, lastConn, lastSnap>>
  /\ UNCHANGED <<ui, calls>>

\* ---------------------------------------------------------- Room component
\* The cap of the connection callback on automatic reconnections (App.tsx 199).
maxAutoReconnects == 2

\* forceCameraRestoration() (733-752) with the engine wait of its first
\* waitForEngineBeforePublish() taken as over: the counter is reset, then
\* restoreCameraState() runs (746-747).
ForceCameraRestoration ==
  IF ~Connected \/ ~lastCameraState
  THEN UNCHANGED <<participants, lastSnap, restorationAttempts, pending, restores, timers>>
  ELSE /\ SetReg(RestoreReg(participants), RestoreNotifies(participants))
       /\ restorationAttempts' = 1
       /\ \E ready \in BOOLEAN :
            IF ready
            THEN EnableAfterWait(timers, TRUE) /\ UNCHANGED restores
            ELSE /\ Len(restores) < MaxRestores
                 /\ restores' = Append(restores, [polls |-> 1, cur |-> TRUE])
                 /\ UNCHANGED <<pending, timers>>

\* The connection callback of the Room component (App.tsx 192-234), called
\* called by the manager through onConnectionChange with the value lastConn
\* holds.  The manager delivers one value several times in a row (false at
\* 275, 310, 332 and 607 for one loss of the connection), so the callback
\* may run more than once for a value.
UiOnConnectionChange(connected) ==
  /\ lastConn = (IF connected THEN "true" ELSE "false")
  /\ IF ~connected
     THEN /\ ui.connectionAttempts < MaxNotifications
          /\ IF ui.seen < maxAutoReconnects
             THEN /\ ui.retryTimers < MaxUiTimers
                  /\ ui' = [ui EXCEPT !.connectionAttempts = @ + 1, !.retryTimers = @ + 1]
             ELSE ui' = [ui EXCEPT !.connectionAttempts = @ + 1]
     ELSE /\ ui.restoreTimers < MaxUiTimers
          /\ ui' = [ui EXCEPT !.restoreTimers = @ + 1]
  /\ last' = DidWith("ui:onConnectionChange", [connected |-> connected, before |-> ui])
  /\ UNCHANGED <<room, transport, participants, mgrFlags, connPc, discPc,
                 asyncVars, lastConn, lastSnap>>
  /\ UNCHANGED calls

\* The 8 s timer of the callback fires (App.tsx 200-205): with the manager
\* not connected it calls retryConnection(), which asks the held room to
\* connect again through reconnect() (611-631); reconnect() writes no field
\* of the manager.
UiRetryTimerFires ==
  /\ ui.retryTimers > 0
  /\ ui' = [ui EXCEPT !.retryTimers = @ - 1,
                      !.autoRetries = IF Connected THEN @ ELSE @ + 1]
  /\ last' = Did("ui:retryTimer")
  /\ UNCHANGED <<room, transport, participants, mgrFlags, connPc, discPc,
                 asyncVars, lastConn, lastSnap>>
  /\ UNCHANGED calls

\* The 3 s timer of the callback's connected branch fires (App.tsx 211-232):
\* forceCameraRestoration() when the desired camera is on, else
\* refreshVideoTracks() (676-678).
UiRestoreTimerFires ==
  /\ ui.restoreTimers > 0
  /\ ui' = [ui EXCEPT !.restoreTimers = @ - 1]
  /\ IF lastCameraState
     THEN ForceCameraRestoration
     ELSE /\ SetReg(RefreshVideoTracksInternal(participants, room, lp),
                    RefreshNotifies(participants))
          /\ UNCHANGED <<restorationAttempts, pending, restores, timers>>
  /\ last' = Did("ui:restoreTimer")
  /\ UNCHANGED <<room, transport, lastCameraState, lastMicrophoneState,
                 connPc, discPc, monitors, lastConn>>
  /\ UNCHANGED calls

\* ------------------------------------------------------------ next states
\* connect() with its continuation steps, and disconnect() with its own.
\* The answers of the token service to the POST of generateToken
\* (config/livekit.ts 13-22): a token, a rejection (response.ok false), or
\* a failed request (fetch throws).
FetchOutcomes == {"ok", "rejected", "networkError"}

\* LIVEKIT_CONFIG.generateToken (config/livekit.ts 10-29): the service's
\* token when the response is ok; otherwise the catch at 23-25 swallows the
\* error and generateDevToken signs a token in the browser (28, 49-76).
\* devOk: the Web Crypto signing of encodeJWT succeeds; when it throws,
\* generateToken rejects and connectToRoom makes no config.
GenerateToken(outcome, devOk) ==
  IF outcome = "ok" THEN "service"
  ELSE IF devOk THEN "dev" ELSE "none"

\* connectToRoom / retryConnection build the config (App.tsx 239-243,
\* 553-556, 612-615): the token is generated anew before every
\* manager.connect().
UiGenerateToken(outcome, devOk) ==
  /\ connPc.pc = "idle"
  /\ discPc = "idle"
  /\ room = NoRoom
  /\ ui' = [ui EXCEPT !.fetch = outcome, !.token = GenerateToken(outcome, devOk)]
  /\ last' = DidWith("ui:generateToken", [outcome |-> outcome])
  /\ UNCHANGED <<room, transport, participants, mgrFlags, connPc, discPc,
                 asyncVars, lastConn, lastSnap>>
  /\ UNCHANGED calls

\* Variant: reconnect() empties the registry before it reconnects.
ReconnectCallClearsRegistry ==
  /\ connPc.pc = "idle"
  /\ discPc = "idle"
  /\ IF room = NoRoom
     THEN /\ last' = Did("reconnect:noRoom")
          /\ UNCHANGED <<roomState, connPc, participants, lastSnap>>
     ELSE /\ roomState' = IF roomState = "disconnected" THEN "connecting" ELSE roomState
          /\ connPc' = [pc |-> "reconnect", creator |-> connPc.creator]
          /\ SetReg(EmptyReg, TRUE)
          /\ last' = Did("reconnect")
  /\ UNCHANGED <<room, lp, roster, mgrFlags, discPc, asyncVars, lastConn>>
  /\ UNCHANGED <<ui, calls>>
\* reconnect(config) up to its first await (611-620): without a room it
\* throws; with one it calls connect() on the Room it holds, which starts
\* connecting when it is disconnected and otherwise joins the connection
\* the Room has or is making.
ReconnectCall ==
  /\ connPc.pc = "idle"
  /\ discPc = "idle"
  /\ IF room = NoRoom
     THEN /\ last' = Did("reconnect:noRoom")
          /\ UNCHANGED <<roomState, connPc, participants, lastSnap>>
     ELSE /\ roomState' = IF roomState = "disconnected" THEN "connecting" ELSE roomState
          /\ connPc' = [pc |-> "reconnect", creator |-> connPc.creator]
          /\ UNCHANGED <<participants, lastSnap>>
          /\ last' = Did("reconnect")
  /\ UNCHANGED <<room, lp, roster, mgrFlags, discPc, asyncVars, lastConn>>
  /\ UNCHANGED <<ui, calls>>

\* reconnect() settles (620-630): it resolves when the Room is connected
\* after room.connect() and waitForConnection(); it rejects, rethrowing,
\* when room.connect() rejects or the Room is not connected after the polls.
ReconnectSettles(ok) ==
  /\ connPc.pc = "reconnect"
  /\ ok = (roomState = "connected")
  /\ connPc' = Idle
  /\ last' = Did(IF ok THEN "reconnect:ok" ELSE "reconnect:rejected")
  /\ UNCHANGED <<room, transport, participants, mgrFlags, discPc, asyncVars,
                 lastConn, lastSnap>>
  /\ UNCHANGED <<ui, calls>>

\* ------------------------------------------------- connect() calls that overlap
\* What the one-call-at-a-time actions above keep: every variable but calls.
single == <<room, transport, participants, mgrFlags, connPc, discPc, asyncVars,
            lastConn, lastSnap, ui>>
InFlight(c) == calls.pc[c] # "idle"
Other(c) == 3 - c

\* `this.room = new Room(...)`, setupEventListeners() and room.connect()
\* (47-82): caller c is at Promise.race with the Room it made.
NewRoom(cs, c) ==
  LET r == cs.made + 1
  IN [cs EXCEPT !.held = r, !.st[r] = "connecting", !.made = r,
                !.mine[c] = r, !.pc[c] = "race"]

\* The catch of connect() (101-113): with a Room in this.room it awaits
\* that Room's disconnect(); with none it rethrows at once.
Catch(cs, c) ==
  IF cs.held # 0
  THEN [cs EXCEPT !.pc[c] = "cleanup", !.tgt[c] = cs.held]
  ELSE [cs EXCEPT !.pc[c] = "idle"]

\* connect() is called by caller c (37-47): it awaits this.disconnect() when
\* this.room is set (43-45, 603-604), else it makes its Room at once.
OvConnectCall(c) ==
  /\ ~InFlight(c)
  /\ LET cs == [calls EXCEPT !.overlapped = InFlight(Other(c)), !.later = c]
     IN IF calls.held # 0
        THEN calls' = [cs EXCEPT !.pc[c] = "teardown", !.tgt[c] = calls.held]
        ELSE /\ calls.made < MaxRooms
             /\ calls' = NewRoom(cs, c)
  /\ last' = Did("overlap:connect")
  /\ UNCHANGED single

\* The disconnect() awaited by connect() ends (604-607, 47): the Room it
\* was called on is disconnected, this.room is set to null, and connect()
\* goes on to make its Room.
OvTeardownDone(c) ==
  /\ calls.pc[c] = "teardown"
  /\ calls.made < MaxRooms
  /\ calls' = NewRoom([calls EXCEPT !.st[calls.tgt[c]] = "disconnected", !.held = 0], c)
  /\ last' = Did("overlap:teardown")
  /\ UNCHANGED single

\* A Room that is connecting becomes connected, or fails to.
OvRoomSettles(r, ok) ==
  /\ calls.st[r] = "connecting"
  /\ calls' = [calls EXCEPT !.st[r] = IF ok THEN "connected" ELSE "disconnected"]
  /\ last' = Step
  /\ UNCHANGED single

\* Promise.race of caller c settles (82): it resolves when the Room the
\* caller made is connected; it rejects when that Room's connect() failed or
\* was cut by a disconnect(), or by the 45 s timeout while still connecting.
OvRaceSettles(c) ==
  /\ calls.pc[c] = "race"
  /\ IF calls.st[calls.mine[c]] = "connected"
     THEN /\ calls' = [calls EXCEPT !.pc[c] = "wait"]
          /\ last' = Step
     ELSE /\ calls' = Catch(calls, c)
          /\ last' = Did("overlap:raceRejected")
  /\ UNCHANGED single

\* waitForConnection() and the lines after it (85-99) for caller c, on
\* this.room as it is by then: with this.room null waitForConnection returns
\* (139) and line 88 throws; with a connected Room the call resolves; with a
\* Room that is not connected the polls run out and it throws (153-155).
OvWaitDone(c) ==
  /\ calls.pc[c] = "wait"
  /\ IF calls.held # 0 /\ calls.st[calls.held] = "connected"
     THEN /\ calls' = [calls EXCEPT !.pc[c] = "idle"]
          /\ last' = Did("overlap:resolved")
     ELSE /\ calls' = Catch(calls, c)
          /\ last' = Did("overlap:waitRejected")
  /\ UNCHANGED single

\* The room.disconnect() awaited in the catch ends (106-110): that Room is
\* disconnected, this.room is set to null, the call rejects.
OvCleanupDone(c) ==
  /\ calls.pc[c] = "cleanup"
  /\ calls' = [calls EXCEPT !.st[calls.tgt[c]] = "disconnected", !.held = 0,
                            !.pc[c] = "idle"]
  /\ last' = Did("overlap:rejected")
  /\ UNCHANGED single

Overlaps ==
  \/ \E c \in Callers : OvConnectCall(c)
  \/ \E c \in Callers : OvTeardownDone(c)
  \/ \E r \in RoomIds, ok \in BOOLEAN : OvRoomSettles(r, ok)
  \/ \E c \in Callers : OvRaceSettles(c)
  \/ \E c \in Callers : OvWaitDone(c)
  \/ \E c \in Callers : OvCleanupDone(c)
\* connect() called by two callers on one manager.
SpecOverlap == Init /\ [][Overlaps]_vars

Connects ==
  \/ \E c \in BOOLEAN : ConnectCall(c)
  \/ ConnectTeardownDone
  \/ ConnectRaceResolved
  \/ ConnectRaceRejected
  \/ ConnectCleanupDone
  \/ ConnectFinish
Disconnects ==
  \/ DisconnectCall
  \/ DisconnectDone
\* connect() as a joining participant calls it: with no room held and no
\* earlier successful connect(); a failed attempt may be repeated.
JoinOnce ==
  \/ room = NoRoom /\ monitors = <<>> /\ ConnectCall(FALSE)
  \/ ConnectRaceResolved
  \/ ConnectRaceRejected
  \/ ConnectCleanupDone
  \/ ConnectFinish

TracklessPart == TPart(FALSE, FALSE, NoTrack, NoTrack)
\* The remote identities that publish media; the others join without any.
\* The handlers treat every identity alike.
Publishers == {1}

Next ==
  \/ Connects
  \/ Disconnects
  \/ \E st \in RoomStates : EvConnectionStateChanged(st)
  \/ EvConnected
  \/ EvReconnecting
  \/ \E r \in Reasons : EvDisconnected(r)
  \/ \E p \in RemoteIds, tp \in RemoteParts : EvParticipantConnected(p, tp)
  \/ \E p \in RemoteIds : EvParticipantConnectedAgain(p)
  \/ \E p \in RemoteIds : EvParticipantDisconnected(p)
  \/ \E p \in RemoteIds, k \in Kinds : EvTrackPublished(p, k)
  \/ \E p \in RemoteIds, k \in Kinds : \E t \in TracksOf(k) : EvTrackSubscribed(p, k, t)
  \/ \E p \in RemoteIds, k \in Kinds : EvTrackUnsubscribed(p, k)
  \/ \E p \in RemoteIds, k \in Kinds, m \in BOOLEAN : EvTrackMuted(p, k, m)
  \/ \E k \in Kinds : \E t \in TracksOf(k) : EvLocalTrackPublished(k, t)
  \/ \E k \in Kinds : EvLocalTrackUnpublished(k)
  \/ \E k \in Kinds : EnvLocalDeviceLost(k)
  \/ ToggleCameraCall
  \/ ToggleMicrophoneCall
  \/ \E i \in 1..MaxPending, ok \in BOOLEAN : DeviceCallSettles(i, ok)
  \/ \E i \in 1..MaxRestores : RestorePoll(i)
  \/ \E k \in TimerKinds : TimerFires(k)
  \/ \E q \in Qualities : EvConnectionQualityChanged(q)
  \/ \E p \in RemoteIds, q \in Qualities : EvRemoteConnectionQualityChanged(p, q)
  \/ \E i \in 1..MaxMonitors, poor \in BOOLEAN : MonitorTick(i, poor)
  \/ RefreshAllCall
  \/ \E b \in BOOLEAN : SetCameraStateCall(b)
  \/ \E c \in BOOLEAN : UiOnConnectionChange(c)
  \/ UiRetryTimerFires
  \/ UiRestoreTimerFires
  \/ \E o \in FetchOutcomes, d \in BOOLEAN : UiGenerateToken(o, d)
  \/ ReconnectCall
  \/ \E ok \in BOOLEAN : ReconnectSettles(ok)
  \/ RefreshVideoTracksCall
  \/ Overlaps

\* The whole manager with its environment.
Spec == Init /\ [][Next]_vars

\* The properties are checked on parts of Next, each a set of calls and
\* events that its properties are about.

\* Sessions: connects, disconnects, connection events, participants that
\* join and leave.
NextSession ==
  \/ Connects
  \/ Disconnects
  \/ \E st \in RoomStates : EvConnectionStateChanged(st)
  \/ EvConnected
  \/ EvReconnecting
  \/ \E r \in Reasons : EvDisconnected(r)
  \/ \E p \in RemoteIds : EvParticipantConnected(p, TracklessPart)
  \/ \E p \in RemoteIds : EvParticipantDisconnected(p)
  \/ \E k \in {"cscRefresh", "connRefreshRestore", "connRestore"} : TimerFires(k)
SpecSession == Init /\ [][NextSession]_vars

\* Local media: the local participant's tracks across disconnections.
NextLocalMedia ==
  \/ Connects
  \/ Disconnects
  \/ \E st \in RoomStates : EvConnectionStateChanged(st)
  \/ \E r \in Reasons : EvDisconnected(r)
  \/ \E k \in Kinds : \E t \in TracksOf(k) : EvLocalTrackPublished(k, t)
  \/ \E k \in Kinds : EvLocalTrackUnpublished(k)
  \/ TimerFires("cscRefresh")
SpecLocalMedia == Init /\ [][NextLocalMedia]_vars

\* Restoration: one session, the camera toggle, connection events, the
\* timers and the engine polls of restoreCameraState.
NextRestore ==
  \/ JoinOnce
  \/ \E st \in RoomStates : EvConnectionStateChanged(st)
  \/ EvConnected
  \/ ToggleCameraCall
  \/ \E i \in 1..MaxPending, ok \in BOOLEAN : DeviceCallSettles(i, ok)
  \/ \E i \in 1..MaxRestores : RestorePoll(i)
  \/ \E k \in TimerKinds \ {"poorCheck"} : TimerFires(k)
SpecRestore == Init /\ [][NextRestore]_vars

\* Restoration that succeeds: one session, setCameraState as the user's way
\* to want the camera on, connection state changes with their timers, the
\* engine polls, the enable call settling and the local video track it
\* publishes.
NextRestored ==
  \/ JoinOnce
  \/ \E st \in RoomStates : EvConnectionStateChanged(st)
  \/ \E b \in BOOLEAN : SetCameraStateCall(b)
  \/ \E i \in 1..MaxPending, ok \in BOOLEAN : DeviceCallSettles(i, ok)
  \/ \E i \in 1..MaxRestores : RestorePoll(i)
  \/ EvLocalTrackPublished("video", "v1")
  \/ \E k \in {"cscRefresh", "cscRestore", "refresh"} : TimerFires(k)
SpecRestored == Init /\ [][NextRestored]_vars

\* Reconnection: one session whose room goes to reconnecting and back, the
\* desired camera set by setCameraState, the timers of the
\* ConnectionStateChanged handler, the engine polls and the enable call.
ReconnectTimers ==
  \/ \E k \in {"cscRefresh", "cscRestore", "refresh"} : TimerFires(k)
EngineWaits == \E i \in 1..MaxRestores : RestorePoll(i)
CallsSettle == \E i \in 1..MaxPending, ok \in BOOLEAN : DeviceCallSettles(i, ok)
NextReconnect ==
  \/ JoinOnce
  \/ \E st \in RoomStates : EvConnectionStateChanged(st)
  \/ \E b \in BOOLEAN : SetCameraStateCall(b)
  \/ ReconnectTimers
  \/ EngineWaits
  \/ CallsSettle
SpecReconnect == Init /\ [][NextReconnect]_vars
\* Timers that are due fire, 100 ms waits end, and the transport settles
\* the calls made on it.
SpecReconnectFair ==
  /\ SpecReconnect
  /\ \A k \in {"cscRefresh", "cscRestore", "refresh"} : WF_vars(TimerFires(k))
  /\ WF_vars(EngineWaits)
  /\ WF_vars(CallsSettle)

\* Connection quality: one session with a remote participant, the desired
\* camera set by setCameraState, quality signals for the local and the
\* remote participant, the delayed check and the refresh they set, and the
\* restoration pass the check may start.
NextQuality ==
  \/ JoinOnce
  \/ \E st \in RoomStates : EvConnectionStateChanged(st)
  \/ EvParticipantConnected(1, TracklessPart)
  \/ \E b \in BOOLEAN : SetCameraStateCall(b)
  \/ \E q \in Qualities : EvConnectionQualityChanged(q)
  \/ \E q \in {"good", "poor"} : EvRemoteConnectionQualityChanged(1, q)
  \/ \E k \in {"poorCheck", "refresh"} : TimerFires(k)
  \/ EngineWaits
SpecQuality == Init /\ [][NextQuality]_vars

\* reconnect(): one session, calls of reconnect() with and without a room,
\* the connection events of the Room, remote participants that join and
\* leave.
NextReconnectCall ==
  \/ JoinOnce
  \/ ReconnectCall
  \/ \E ok \in BOOLEAN : ReconnectSettles(ok)
  \/ \E st \in RoomStates : EvConnectionStateChanged(st)
  \/ EvReconnecting
  \/ \E r \in Reasons : EvDisconnected(r)
  \/ \E p \in RemoteIds : EvParticipantConnected(p, TracklessPart)
  \/ \E p \in RemoteIds : EvParticipantDisconnected(p)
  \/ TimerFires("cscRefresh")
SpecReconnectCall == Init /\ [][NextReconnectCall]_vars

\* Refreshes: one session, the local participant's tracks published and
\* unpublished, the camera toggle with its call settling, and
\* refreshVideoTracks() called at any time.
NextRefresh ==
  \/ JoinOnce
  \/ \E st \in RoomStates : EvConnectionStateChanged(st)
  \/ \E k \in Kinds : \E t \in TracksOf(k) : EvLocalTrackPublished(k, t)
  \/ \E k \in Kinds : EvLocalTrackUnpublished(k)
  \/ ToggleCameraCall
  \/ CallsSettle
  \/ \E k \in {"refresh", "cscRefresh"} : TimerFires(k)
  \/ RefreshVideoTracksCall
SpecRefresh == Init /\ [][NextRefresh]_vars

\* Toggles: one session and its end, both toggles, the transport settling
\* their device calls.
NextToggle ==
  \/ JoinOnce
  \/ Disconnects
  \/ \E st \in RoomStates : EvConnectionStateChanged(st)
  \/ ToggleCameraCall
  \/ ToggleMicrophoneCall
  \/ \E i \in 1..MaxPending, ok \in BOOLEAN : DeviceCallSettles(i, ok)
  \/ \E k \in {"refresh", "cscRefresh"} : TimerFires(k)
SpecToggle == Init /\ [][NextToggle]_vars

\* Tracks: one session, remote participants and their media, the local
\* video track, refresh requests.
NextTracks ==
  \/ JoinOnce
  \/ \E st \in RoomStates : EvConnectionStateChanged(st)
  \/ \E p \in RemoteIds : EvParticipantConnected(p, TracklessPart)
  \/ \E p \in Publishers, tp \in RemoteParts : EvParticipantConnected(p, tp)
  \/ \E p \in RemoteIds : EvParticipantDisconnected(p)
  \/ \E p \in Publishers, k \in Kinds : EvTrackPublished(p, k)
  \/ \E p \in Publishers, k \in Kinds : \E t \in TracksOf(k) : EvTrackSubscribed(p, k, t)
  \/ \E p \in Publishers, k \in Kinds : EvTrackUnsubscribed(p, k)
  \/ \E p \in Publishers, k \in Kinds, m \in BOOLEAN : EvTrackMuted(p, k, m)
  \/ \E t \in VideoTracks : EvLocalTrackPublished("video", t)
  \/ EvLocalTrackUnpublished("video")
  \/ TimerFires("cscRefresh")
  \/ RefreshAllCall
SpecTracks == Init /\ [][NextTracks]_vars

\* Upserts: one session, remote participants announced once or again, their
\* tracks and mute events, refresh requests.
NextUpsert ==
  \/ JoinOnce
  \/ \E st \in RoomStates : EvConnectionStateChanged(st)
  \/ \E p \in RemoteIds : EvParticipantConnected(p, TracklessPart)
  \/ \E p \in Publishers, tp \in RemoteParts : EvParticipantConnected(p, tp)
  \/ \E p \in RemoteIds : EvParticipantConnectedAgain(p)
  \/ \E p \in RemoteIds : EvParticipantDisconnected(p)
  \/ \E p \in Publishers, k \in Kinds : \E t \in TracksOf(k) : EvTrackSubscribed(p, k, t)
  \/ \E p \in Publishers, k \in Kinds : EvTrackUnsubscribed(p, k)
  \/ \E p \in Publishers, k \in Kinds, m \in BOOLEAN : EvTrackMuted(p, k, m)
  \/ RefreshAllCall
SpecUpsert == Init /\ [][NextUpsert]_vars

\* Desired flags: one session, setCameraState and the microphone toggle
\* (made with no device call in flight) as the user's actions, and every
\* connection event with the timers it starts.
ConnectionEvents ==
  \/ \E st \in RoomStates : EvConnectionStateChanged(st)
  \/ EvConnected
  \/ EvReconnecting
  \/ \E r \in Reasons : EvDisconnected(r)
  \/ \E q \in Qualities : EvConnectionQualityChanged(q)
NextFlags ==
  \/ JoinOnce
  \/ ConnectionEvents
  \/ pending = <<>> /\ ToggleMicrophoneCall
  \/ \E b \in BOOLEAN : SetCameraStateCall(b)
  \/ \E k \in TimerKinds : TimerFires(k)
SpecFlags == Init /\ [][NextFlags]_vars

\* Sessions that follow one another: connects and disconnects, the Connected
\* and ConnectionStateChanged events with their timers, and setCameraState
\* as the user's way to set the desired camera.
NextStale ==
  \/ Connects
  \/ Disconnects
  \/ \E st \in RoomStates : EvConnectionStateChanged(st)
  \/ EvConnected
  \/ \E b \in BOOLEAN : SetCameraStateCall(b)
  \/ \E k \in {"connRefreshRestore", "connRestore", "cscRefresh", "cscRestore"} : TimerFires(k)
SpecStale == Init /\ [][NextStale]_vars

\* The Room component's connection callback with one session of the
\* manager and its connection events.
NextUi ==
  \/ JoinOnce
  \/ \E st \in RoomStates : EvConnectionStateChanged(st)
  \/ EvReconnecting
  \/ \E r \in Reasons : EvDisconnected(r)
  \/ TimerFires("cscRefresh")
  \/ \E c \in BOOLEAN : UiOnConnectionChange(c)
  \/ UiRetryTimerFires
  \/ UiRestoreTimerFires
SpecUi == Init /\ [][NextUi]_vars

\* The Room component from its mount: the token is generated, then
\* manager.connect() is called with it (App.tsx 239-245).
NextToken ==
  \/ \E o \in FetchOutcomes, d \in BOOLEAN : UiGenerateToken(o, d)
  \/ ui.token # "none" /\ room = NoRoom /\ monitors = <<>> /\ ConnectCall(FALSE)
  \/ ConnectRaceResolved
  \/ ConnectRaceRejected
  \/ ConnectCleanupDone
  \/ ConnectFinish
  \/ \E st \in RoomStates : EvConnectionStateChanged(st)
  \/ EvReconnecting
  \/ \E r \in Reasons : EvDisconnected(r)
  \/ TimerFires("cscRefresh")
  \/ \E c \in BOOLEAN : UiOnConnectionChange(c)
  \/ UiRetryTimerFires
  \/ UiRestoreTimerFires
SpecToken == Init /\ [][NextToken]_vars

\* --------------------------------------------------------------- properties
\* A session is up: the last connect() succeeded, its room is still held
\* and connected, and no disconnect() is under way.
SessionUp ==
  /\ room # NoRoom
  /\ connPc.pc = "idle"
  /\ discPc = "idle"
  /\ roomState = "connected"

\* C1: while a session is up the registry holds exactly one entry per
\* identity that is in the room -- the local participant and the remote
\* participants that joined and have not left -- and exactly one entry is
\* the local one.
C1_OneEntryPerJoinedIdentity ==
  SessionUp =>
    /\ DOMAIN participants = {LocalIdentity} \cup DOMAIN roster
    /\ Cardinality({id \in DOMAIN participants : participants[id].isLocal}) = 1

\* C2: a Disconnected event with a transient reason followed by a Connected
\* event leaves the set of identities in the registry as it was before the
\* Disconnected event.
C2_TransientDisconnectKeepsEntries ==
  last.op = "ConnectedAfterTransient" => DOMAIN participants = last.pre
C2_Witness ==
  /\ last.op = "ConnectedAfterTransient"
  /\ Has(participants, LocalIdentity)
  /\ Cardinality(DOMAIN participants) >= 2

\* C3: right after a Disconnected event with a permanent reason (client
\* leave or server shutdown) the local entry holds neither a video nor an
\* audio track handle.
C3_PermanentDisconnectClearsLocalTracks ==
  (last.op = "DisconnectedPermanent" /\ Has(participants, LocalIdentity)) =>
    /\ participants[LocalIdentity].videoTrack = NoTrack
    /\ participants[LocalIdentity].audioTrack = NoTrack

\* C4: the restoration attempt counter never exceeds maxRestorationAttempts.
C4_RestorationAttemptsBounded == restorationAttempts <= maxRestorationAttempts

Refusals == {"toggleCamera:notInitialized", "toggleCamera:notConnected",
             "toggleMicrophone:notInitialized", "toggleMicrophone:notConnected"}
ToggleStarts == {"toggleCamera", "toggleCamera2", "toggleMicrophone", "toggleMicrophone2"}

\* C5: a toggle goes on only when it is called with a room that is
\* connected; called without a room or with a room in another state it
\* throws, and then it has issued no device call and has left the two desired
\* flags and the registry as they were.
C5_ToggleRefusedUnlessConnected ==
  /\ last.op \in ToggleStarts => last.pre.up
  /\ last.op \in Refusals =>
       /\ ~last.pre.up
       /\ pending = last.pre.calls
       /\ lastCameraState = last.pre.cam
       /\ lastMicrophoneState = last.pre.mic
       /\ participants = last.pre.reg
C5_Witness ==
  /\ last.op = "toggleCamera:notConnected"
  /\ lastCameraState
  /\ Has(participants, LocalIdentity)

\* C6: right after two toggleCamera() calls in immediate succession, made
\* with the local entry in the registry, the desired-camera flag is the
\* negation of its value before the first call.
C6_DoubleToggleNegatesOnce ==
  (last.op = "toggleCamera2" /\ last.pre.flag # "none")
    => lastCameraState = ~last.pre.desired

\* C7: no two device calls issued by toggles of the same device are pending
\* on the transport of the room at the same time.
C7_NoSecondCallWhileTogglePending ==
  \A i, j \in 1..Len(pending) :
    (i # j /\ pending[i].by = "toggle" /\ pending[j].by = "toggle"
       /\ pending[i].cur /\ pending[j].cur)
      => pending[i].dev # pending[j].dev

\* C8: right after a toggle whose device call was rejected the local entry's
\* flag (isCameraOn, isMuted) is the one it had before the toggle was called.
C8_FailedToggleRollsBack ==
  /\ (last.op = "toggleCamera:rejectedAtOnce" /\ Has(participants, LocalIdentity))
       => LocalFlag(participants, "cam") = last.pre.flag
  /\ (last.op = "toggleMicrophone:rejectedAtOnce" /\ Has(participants, LocalIdentity))
       => LocalFlag(participants, "mic") = last.pre.flag

\* C9: refreshAllParticipantTracks() adds and removes no entry, and a second
\* call right after the first leaves the registry as the first call left it.
C9_RefreshAllIdempotent ==
  /\ last.op \in {"refreshAll", "refreshAll2"} => DOMAIN participants = last.pre.ids
  /\ last.op = "refreshAll2" =>
       participants = last.pre.after
C9_Witness ==
  /\ last.op = "refreshAll2"
  /\ SessionUp
  /\ Has(participants, LocalIdentity)
  /\ participants[LocalIdentity].videoTrack # NoTrack
  /\ \E id \in DOMAIN participants : ~participants[id].isLocal /\ participants[id].isCameraOn

\* The local entries of a registry.
LocalEntries(reg) == {id \in DOMAIN reg : reg[id].isLocal}

FlagWriters == ToggleStarts \cup {"setCameraState"}

\* C11: the desired-camera and the desired-microphone flag change only in a
\* step of toggleCamera(), toggleMicrophone() or setCameraState(): no
\* connection event (Disconnected, Reconnecting, Connected,
\* ConnectionStateChanged, ConnectionQualityChanged) and no timer callback
\* that such an event started changes either flag.
C11_ConnectionEventsKeepDesiredFlags ==
  [][(lastCameraState' # lastCameraState \/ lastMicrophoneState' # lastMicrophoneState)
       => last'.op \in FlagWriters]_vars
C11_Witness ==
  /\ last.op = "ConnectedAfterTransient"
  /\ lastCameraState
  /\ lastMicrophoneState

\* C12: whenever the last value given to onConnectionChange is true the
\* manager holds a room whose state is 'connected' (the state isConnected()
\* and getConnectionState() read).
C12_ConnectedFlagOnlyWhenConnected ==
  lastConn = "true" => Connected

\* C13: right after disconnect() has completed on a manager that held a room,
\* the room is disconnected and dropped, the registry is empty and the last
\* value given to onConnectionChange is false; and as long as no room is
\* held that value does not become true.
C13_DisconnectTearsDownAndClears ==
  /\ last.op = "disconnect:ok" =>
       /\ room = NoRoom
       /\ roomState = "disconnected"
       /\ participants = EmptyReg
       /\ lastConn = "false"
  /\ room = NoRoom => lastConn # "true"
C13_Witness ==
  /\ last.op = "disconnect:ok"
  /\ monitors # <<>>
  /\ lastSnap # <<>>
  /\ Cardinality(DOMAIN lastSnap[1]) >= 2

\* C14: disconnect() called with no room held (before any connect, after a
\* disconnect, after a failed connect) returns at once and changes neither
\* the registry, nor the desired flags, nor the room's state, nor what the
\* callbacks were given last; so a second disconnect() right after the first
\* changes nothing.
C14_DisconnectWithoutRoomChangesNothing ==
  [][last'.op = "disconnect:noRoom"
       => UNCHANGED <<room, roomState, participants, lastCameraState,
                      lastMicrophoneState, restorationAttempts, lastConn, lastSnap,
                      pending, timers>>]_vars
C14_Witness ==
  /\ last.op = "disconnect:noRoom"
  /\ lastConn = "false"
  /\ lastCameraState
  /\ lastMicrophoneState

\* C15: connect() called with a room held creates the new Room only after
\* the held room has been disconnected and the registry cleared: right after
\* the new Room is created the registry is empty, and in the step that
\* creates a Room any room held before is in the state 'disconnected'.
C15_ReconnectTearsDownFirst ==
  /\ [](last.op = "connect:replaced" =>
          /\ participants = EmptyReg
          /\ room # NoRoom
          /\ roomState = "connecting")
  /\ [][(connPc'.pc = "race" /\ connPc.pc # "race" /\ room # NoRoom)
          => roomState = "disconnected"]_vars
C15_Witness ==
  /\ last.op = "connect:replaced"
  /\ participants = EmptyReg
  /\ lastSnap # <<>>
  /\ Cardinality(DOMAIN lastSnap[1]) >= 2

\* C16: right after connect() has rejected -- the transport's connect
\* rejected or timed out, or the room did not reach 'connected' in the
\* bounded wait -- the manager holds no room (isConnected() is false,
\* getConnectionState() is 'disconnected'), the room it had created is
\* disconnected, and the registry holds no local entry.
C16_FailedConnectDropsRoom ==
  last.op = "connect:rejected" =>
    /\ room = NoRoom
    /\ ~Connected
    /\ roomState = "disconnected"
    /\ ~Has(participants, LocalIdentity)
C16_Witness ==
  /\ last.op = "connect:rejected"
  /\ lastConn = "false"
  /\ participants # EmptyReg

\* C17: the snapshot given last to onParticipantsChange has the entries of
\* the registry (before the first snapshot the registry is empty); in
\* particular it is empty after disconnect().
C17_SnapshotMatchesRegistry ==
  IF lastSnap = <<>> THEN participants = EmptyReg
  ELSE lastSnap[1] = participants

\* C18: a timer callback of an earlier session is a no-op.  A held room in
\* the state 'connecting' has emitted no Connected or ConnectionStateChanged
\* event yet, so a timer that fires while no room is held or while the held
\* room is 'connecting' was started before that room was created; it changes
\* neither the registry, nor the attempt counter, nor the pending device calls.
C18_StaleTimersAreNoOps ==
  [][((\E k \in TimerKinds : timers'[k] < timers[k])
        /\ (room = NoRoom \/ roomState = "connecting"))
       => UNCHANGED <<participants, restorationAttempts, pending>>]_vars

\* C19: while the manager holds a room, the automatic reconnection attempts
\* that the connection callback's timers have started do not exceed the
\* cap, and a disconnected notification received when connectionAttempts
\* has reached the cap starts no retry timer.
C19_AutoReconnectCapped ==
  room # NoRoom =>
    /\ ui.autoRetries <= maxAutoReconnects
    /\ (last.op = "ui:onConnectionChange" /\ ~last.pre.connected
          /\ last.pre.before.connectionAttempts >= maxAutoReconnects)
         => ui.retryTimers = last.pre.before.retryTimers

\* A restoration pass is in flight: it is polling for the engine, or its
\* setCameraEnabled(true) call has not settled.
RestoreCalls(q) == {i \in 1..Len(q) : q[i].by = "restore"}
PassInFlight == restores # <<>> \/ RestoreCalls(pending) # {}

\* C20: while a restoration pass is in flight no step raises the attempt
\* counter, and no two setCameraEnabled(true) calls issued by restoration
\* are pending at the same time.
C20_OneRestorationPassAtATime ==
  /\ [][PassInFlight => restorationAttempts' <= restorationAttempts]_vars
  /\ [](Cardinality(RestoreCalls(pending)) <= 1)

\* C21: while connect() has not yet passed its wait for the engine
\* (Promise.race, waitForConnection, waitForEngineReady), the value given
\* last to onConnectionChange is not true.
C21_ConnectedOnlyAfterEngineReady ==
  connPc.pc \in {"race", "engine"} => lastConn # "true"

\* C22: when the call to the token service failed (the request was rejected
\* or threw), no room is created and no transport connect is under way.
C22_FailedTokenFetchStopsConnect ==
  ui.fetch \in {"rejected", "networkError"} => room = NoRoom

\* C23: right after a remote participant was added, its entry holds the
\* video (audio) track the transport has for it, with isCameraOn true
\* (isMuted false) exactly when there is such a track; right after connect()
\* added the local participant, its flags are the transport's camera-enabled
\* flag and the negation of its microphone-enabled flag.
C23_AddParticipantSeedsFromTransport ==
  /\ last.op = "ParticipantConnected" =>
       LET e == participants[last.pre.id]
           tp == roster[last.pre.id]
       IN /\ ~e.isLocal
          /\ e.videoTrack = tp.v /\ e.isCameraOn = (tp.v # NoTrack)
          /\ e.audioTrack = tp.a /\ e.isMuted = (tp.a = NoTrack)
  /\ last.op = "connect:ok" =>
       LET e == participants[LocalIdentity]
       IN /\ e.isLocal
          /\ e.isCameraOn = lp.cam /\ e.isMuted = ~lp.mic
          /\ e.videoTrack = lp.v /\ e.audioTrack = lp.a
\* A remote participant joined with a video track and no audio track, its
\* camera-enabled flag false and its microphone-enabled flag true.
C23_Witness ==
  /\ last.op = "ParticipantConnected"
  /\ roster[last.pre.id].v # NoTrack /\ roster[last.pre.id].a = NoTrack
  /\ ~roster[last.pre.id].cam /\ roster[last.pre.id].mic
  /\ participants[last.pre.id].isCameraOn /\ participants[last.pre.id].isMuted

\* C24: after the handler added an identity that was already added, the
\* registry has one entry for it, the entry addParticipant builds from the
\* transport's participant, and every other entry as before; when the
\* earlier add was the step before, the registry is the one that add left.
C24_UpsertIsIdempotent ==
  last.op = "ParticipantConnectedAgain" =>
    LET p == last.pre.id
        once == AddParticipant(EmptyReg, p, roster[p], FALSE, FALSE)[p]
    IN /\ Cardinality({id \in DOMAIN participants : id = p}) = 1
       /\ participants = Put(last.pre.reg, p, once)
       /\ last.pre.fresh => participants = last.pre.reg
\* A participant with a video track was added twice in a row.
C24_Witness ==
  /\ last.op = "ParticipantConnectedAgain"
  /\ last.pre.fresh
  /\ participants[last.pre.id].videoTrack # NoTrack
  /\ participants[last.pre.id].isCameraOn

\* C25: a TrackSubscribed event for an identity without an entry creates
\* none; and right after a TrackSubscribed event for an identity that has
\* an entry (the join came first), the entry's handle and flag of the
\* track's kind are the ones addParticipant gives when the join comes
\* after the track (the transport's participant being the same).
C25_JoinAndSubscribeCommute ==
  last.op = "TrackSubscribed" =>
    LET p == last.pre.id
        joinedAfter == AddParticipant(EmptyReg, p, roster[p], FALSE, FALSE)[p]
    IN /\ ~last.pre.had => ~Has(participants, p)
       /\ (Has(participants, p) /\ last.pre.kind = "video") =>
            /\ participants[p].videoTrack = joinedAfter.videoTrack
            /\ participants[p].isCameraOn = joinedAfter.isCameraOn
       /\ (Has(participants, p) /\ last.pre.kind = "audio") =>
            /\ participants[p].audioTrack = joinedAfter.audioTrack
            /\ participants[p].isMuted = joinedAfter.isMuted

\* C26: a step in which the local participant gets a published track of
\* some kind (a LocalTrackPublished event), the local entry being there,
\* stores that track in the local entry and leaves the entry's isCameraOn
\* and isMuted as they were.
C26_LocalPublishKeepsFlags ==
  [][\A k \in Kinds :
       (/\ Has(participants, LocalIdentity)
        /\ TrackOf(lp', k) # TrackOf(lp, k)
        /\ TrackOf(lp', k) # NoTrack)
       => /\ Has(participants', LocalIdentity)
          /\ (IF k = "video" THEN participants'[LocalIdentity].videoTrack
              ELSE participants'[LocalIdentity].audioTrack) = TrackOf(lp', k)
          /\ participants'[LocalIdentity].isCameraOn = participants[LocalIdentity].isCameraOn
          /\ participants'[LocalIdentity].isMuted = participants[LocalIdentity].isMuted]_vars

\* C27: in a step taken while the room is reconnecting, in which a remote
\* participant or the local one loses a track (a TrackUnsubscribed or
\* LocalTrackUnpublished event), the entry of that participant keeps its
\* handle of that kind and isCameraOn does not go from true to false.
C27_TransientUnsubscribeKeepsTrack ==
  [][(roomState = "reconnecting" /\ roomState' = "reconnecting") =>
       /\ \A p \in (DOMAIN roster) \cap (DOMAIN roster') \cap (DOMAIN participants) :
            \A k \in Kinds :
              (TrackOf(roster[p], k) # NoTrack /\ TrackOf(roster'[p], k) = NoTrack)
              => /\ Has(participants', p)
                 /\ (k = "video" => participants'[p].videoTrack = participants[p].videoTrack)
                 /\ (k = "audio" => participants'[p].audioTrack = participants[p].audioTrack)
                 /\ (participants[p].isCameraOn => participants'[p].isCameraOn)
       /\ \A k \in Kinds :
            (Has(participants, LocalIdentity)
               /\ TrackOf(lp, k) # NoTrack /\ TrackOf(lp', k) = NoTrack)
            => /\ Has(participants', LocalIdentity)
               /\ (k = "video" => participants'[LocalIdentity].videoTrack
                                    = participants[LocalIdentity].videoTrack)
               /\ (k = "audio" => participants'[LocalIdentity].audioTrack
                                    = participants[LocalIdentity].audioTrack)
               /\ (participants[LocalIdentity].isCameraOn
                     => participants'[LocalIdentity].isCameraOn)]_vars

\* C28: a TrackMuted (TrackUnmuted) event of kind audio for a participant
\* with an entry leaves the entry with isMuted true (false), whatever its
\* audio handle is, and leaves both handles of the entry as they were.
C28_MuteEventsDecideMuted ==
  [][(last'.op = "TrackMuted" /\ last'.pre.kind = "audio"
        /\ Has(participants, last'.pre.id))
     => LET p == last'.pre.id
        IN /\ Has(participants', p)
           /\ participants'[p].isMuted = last'.pre.muted
           /\ participants'[p].videoTrack = participants[p].videoTrack
           /\ participants'[p].audioTrack = participants[p].audioTrack]_vars
\* A participant whose entry holds an audio track was muted by a TrackMuted
\* event.
C28_Witness ==
  /\ last.op = "TrackMuted" /\ last.pre.kind = "audio" /\ last.pre.muted
  /\ Has(participants, last.pre.id)
  /\ participants[last.pre.id].audioTrack = "a1"
  /\ participants[last.pre.id].isMuted

\* C29: while the room is connected, every remote entry without a video
\* handle has isCameraOn false.
C29_RemoteCameraFollowsTrack ==
  (room # NoRoom /\ roomState = "connected") =>
    \A id \in DOMAIN participants :
      (~participants[id].isLocal /\ participants[id].videoTrack = NoTrack)
      => ~participants[id].isCameraOn

\* C30: when the refresh timer fires after a restoration pass has run
\* (restorationAttempts is not 0) and the refresh leaves the local entry
\* with a video track, restorationAttempts is 0 after the step.
C30_SuccessResetsAttempts ==
  [][(/\ timers'["refresh"] < timers["refresh"]
      /\ restorationAttempts > 0
      /\ Has(participants', LocalIdentity)
      /\ participants'[LocalIdentity].videoTrack # NoTrack)
     => restorationAttempts' = 0]_vars

\* The local entry holds no video track.
LocalVideoAbsent ==
  ~Has(participants, LocalIdentity) \/ participants[LocalIdentity].videoTrack = NoTrack
\* The step ends the engine wait of a restoration pass: the pass started in
\* this step with the engine ready, or a polling pass left the wait.
WaitEnds ==
  \/ restorationAttempts' > restorationAttempts /\ restores' = restores
  \/ Len(restores') < Len(restores)

\* C31: when the engine wait of a restoration pass ends with the room
\* connected and the desired camera on, and the transport reports the camera
\* disabled or reports it enabled with no local video track in the entry,
\* the step issues a setCameraEnabled(true) call.
C31_RestoreActsOnBothMismatches ==
  [][(/\ WaitEnds
      /\ Connected /\ lastCameraState
      /\ (~lp.cam \/ LocalVideoAbsent))
     => Cardinality(RestoreCalls(pending')) > Cardinality(RestoreCalls(pending))]_vars

\* C32: a step in which restoration issues a setCameraEnabled(true) call is
\* taken with the room connected and the desired camera on.
C32_RestoreRechecksBeforeEnable ==
  [][Cardinality(RestoreCalls(pending')) > Cardinality(RestoreCalls(pending))
     => (room # NoRoom /\ roomState = "connected" /\ lastCameraState)]_vars

\* C33: an engine wait of restoration has made between 1 and 5 polls; a
\* pass started with the room not connected starts no wait and issues no
\* call; and a wait that ends with the room connected and the camera
\* reported disabled, the fifth poll with the engine not ready included,
\* is followed in the same step by the setCameraEnabled(true) call.
C33_EngineWaitIsBounded ==
  /\ [](\A i \in 1..Len(restores) : restores[i].polls \in 1..MaxEnginePolls)
  /\ [][/\ (restorationAttempts' > restorationAttempts /\ roomState # "connected")
             => (restores' = restores /\ pending' = pending)
        /\ (Len(restores') < Len(restores) /\ Connected /\ ~lp.cam)
             => Cardinality(RestoreCalls(pending')) > Cardinality(RestoreCalls(pending))]_vars
\* A wait ended at its fifth poll and the enable call was issued.
C33_Witness ==
  /\ last.op = "restorePoll" /\ last.pre.polls = MaxEnginePolls
  /\ restores = <<>>
  /\ RestoreCalls(pending) # {}

\* The room has reported 'connected' and the handler's refresh timer is
\* pending, with the desired camera on, the camera reported disabled and
\* no enable call of restoration under way.
ReconnectReported ==
  /\ Connected
  /\ timers["cscRefresh"] > 0
  /\ lastCameraState /\ ~lp.cam
  /\ RestoreCalls(pending) = {}
\* The session did not stay as it was: the room left 'connected', the
\* desired camera went off, or the camera came to be reported enabled.
SessionMoved == ~Connected \/ ~lastCameraState \/ lp.cam

\* C34: after the room reported 'connected' with the desired camera on and
\* the camera reported disabled, restoration issues a setCameraEnabled(true)
\* call, unless the session does not stay so (or the attempt counter has
\* reached the bound of the model); the restoration timer of the handler is
\* set only by the step in which its refresh timer fires and refreshes, and
\* a restoration pass starts only when that restoration timer fires.
C34_ReconnectRefreshesThenRestores ==
  /\ ReconnectReported
       ~> (RestoreCalls(pending) # {} \/ SessionMoved \/ restorationAttempts >= MaxAttempts)
  /\ [][/\ timers'["cscRestore"] > timers["cscRestore"]
             => /\ timers'["cscRefresh"] < timers["cscRefresh"]
                /\ participants' = RefreshVideoTracksInternal(participants, room, lp)
        /\ restorationAttempts' > restorationAttempts
             => timers'["cscRestore"] < timers["cscRestore"]]_vars
\* The enable call of restoration is pending in a connected room whose
\* refresh timer has fired.
C34_Witness ==
  /\ Connected /\ lastCameraState /\ ~lp.cam
  /\ timers["cscRefresh"] = 0 /\ timers["cscRestore"] = 0
  /\ restorationAttempts = 1
  /\ RestoreCalls(pending) # {}

\* The step handles a quality signal for the local participant that sets a
\* timer: the delayed check of a Poor signal, or the refresh of a Good or
\* Excellent one (a refresh timer set with no enable call issued).
QualitySignalStep ==
  \/ timers'["poorCheck"] > timers["poorCheck"]
  \/ timers'["refresh"] > timers["refresh"] /\ pending' = pending

\* C35: a quality signal for the local participant leaves the room's state,
\* the connected value last notified and the registry as they were and
\* starts no restoration pass; one for a remote participant changes
\* nothing; the delayed check is set only with the desired camera on, and
\* when it fires a restoration pass starts only with the room connected and
\* the desired camera on.
C35_QualitySignalsAreAdvisory ==
  [][/\ QualitySignalStep
          => /\ UNCHANGED <<room, roomState, lastConn, participants, lastSnap>>
             /\ UNCHANGED <<restorationAttempts, pending, restores>>
     /\ last'.op = "RemoteConnectionQualityChanged"
          => UNCHANGED <<room, transport, participants, mgrFlags, connPc, discPc,
                         asyncVars, lastConn, lastSnap, ui>>
     /\ timers'["poorCheck"] > timers["poorCheck"] => lastCameraState
     /\ (timers'["poorCheck"] < timers["poorCheck"]
           /\ restorationAttempts' > restorationAttempts)
          => (Connected /\ lastCameraState)]_vars
\* The delayed check of a Poor signal has started a restoration pass, and a
\* remote participant is in the registry.
C35_Witness ==
  /\ restorationAttempts = 1
  /\ timers["poorCheck"] = 0
  /\ Connected /\ lastCameraState
  /\ Has(participants, 1)

C37_RefreshKeepsLiveHandles ==
  (last.op = "refreshVideoTracks" /\ Has(last.pre.reg, LocalIdentity)) =>
    LET b == last.pre.reg[LocalIdentity]
        e == participants[LocalIdentity]
    IN /\ DOMAIN participants = DOMAIN last.pre.reg
       /\ \A id \in DOMAIN participants \ {LocalIdentity} :
            participants[id] = last.pre.reg[id]
       /\ e.isCameraOn = b.isCameraOn /\ e.isMuted = b.isMuted
       /\ (b.videoTrack # NoTrack /\ e.videoTrack = NoTrack)
            => (lp.v = NoTrack /\ ~lp.cam)
       /\ (lp.v = NoTrack /\ lp.cam) => e.videoTrack = b.videoTrack
       /\ (room # NoRoom /\ lp.v = NoTrack /\ ~lp.cam) => e.videoTrack = NoTrack
       /\ b.audioTrack # NoTrack => e.audioTrack # NoTrack
\* A refresh ran with the camera reported enabled and no video track
\* published, and the local entry still holds the handle it had.
C37_Witness ==
  /\ last.op = "refreshVideoTracks" /\ Has(last.pre.reg, LocalIdentity)
  /\ room # NoRoom /\ lp.v = NoTrack /\ lp.cam
  /\ last.pre.reg[LocalIdentity].videoTrack = "v1"
  /\ participants[LocalIdentity].videoTrack = "v1"

\* Every connect() call of the two callers has settled.
AllSettled == \A c \in Callers : ~InFlight(c)

\* C38: when a connect() call was made while the other caller's was in
\* flight and both have settled, every Room that is connecting or connected
\* is the one in this.room, and a Room in this.room is the one the later
\* call made.
C38_OverlappingConnectsAreSafe ==
  (AllSettled /\ calls.overlapped) =>
    /\ \A r \in RoomIds :
         calls.st[r] \in {"connecting", "connected"} => calls.held = r
    /\ calls.held # 0 => calls.held = calls.mine[calls.later]


\* C39: right after toggleCamera() rejects because its device call failed,
\* the desired-camera flag (lastCameraState, read by getCameraState) equals
\* the local entry's isCameraOn.
C39_FailedToggleKeepsDesiredAndShownEqual ==
  (last.op \in {"toggleCamera:rejectedAtOnce", "toggleCamera:rejected"}
     /\ Has(participants, LocalIdentity))
    => lastCameraState = participants[LocalIdentity].isCameraOn


\* C40: right after connect() rejects the registry holds no entry, local or
\* remote.
C40_FailedConnectLeavesEmptyRegistry ==
  last.op = "connect:rejected" => participants = EmptyReg

====
